---------------------------- MODULE Spec2Model ----------------------------
(***************************************************************************)
(* PHP translation-file tool (attached_assets): the item store and line    *)
(* rewriter of PHPFileHandler (file_handler.py) and the TranslationCache   *)
(* (utils.py).                                                             *)
(*                                                                         *)
(* Texts are sequences of one-character strings.  The character "ALEF"     *)
(* stands for one Arabic letter (a code point of U+0600-U+06FF that is a   *)
(* letter), every other character is itself.                               *)
(***************************************************************************)
EXTENDS Integers, Sequences, FiniteSets, TLC

VARIABLES
    file_path,          \* PHPFileHandler.file_path ("None" before any load)
    original_content,   \* PHPFileHandler.original_content (text)
    translations,       \* PHPFileHandler.translations (list of item records)
    modified,           \* PHPFileHandler.modified
    encoding,           \* PHPFileHandler.encoding
    \* the last operation called on the handler, with its index argument
    call,
    ret,                \* what that operation returned ("raise": it raised)
    \* history: translations as the last successful load_file set them
    extracted,
    \* history: import_project_data ran since the last successful load_file
    imported,
    \* history: the texts built since the item store last changed (last two)
    build_log,
    cache_file,         \* the cache file (CACHE_FILE) on disk
    cache,              \* TranslationCache.cache
    cache_call,         \* the last operation called on the cache, with its arguments
    cache_ret,          \* what it returned
    flushed,            \* history: the last operation was a set that called save_cache
    insertions,         \* history: new keys inserted by set since the process started
    start_file,         \* history: the cache file as the process found it
    loaded,             \* history: the cache as __init__ left it
    workers,            \* per translation worker: where it is inside set / save_cache
    set_entries,        \* history: the <<key, value>> pairs the workers have stored
    \* history: the keys of the workers' set calls that have returned
    completed,
    source,             \* extraction alone: the document given to the extractor
    ex_call,            \* which extraction ran on it
    ex_items,           \* the items it returned
    raw,                \* history: the items of the chunks before deduplication
    texts,              \* smart_text_grouping: the texts argument
    similarity_threshold,   \* its threshold, as a fraction num/den
    g_groups,           \* groups: the groups closed so far
    processed,          \* the positions (0-based) already claimed
    current_group,      \* the group being filled
    g_i,                \* position of the outer loop
    g_j,                \* position of the inner loop
    g_pc,               \* "outer", "inner" or "done"
    index_groups,       \* history: the positions of the members of each group
    progress,           \* what get_translation_progress() returned last (-1: never called)
    is_cancelled,       \* TranslationThread.is_cancelled
    t_pc,               \* where the thread is in run(): "none", "check", "translate", "finished"
    t_next,             \* position in items_to_translate of the item it is at
    event_queue,        \* translation_completed events posted to the main thread
    m_pc,               \* the main thread: "loop" (event loop) or "wait" (in stop_translation)
    stopped,            \* history: stop_translation() has returned
    at_cancel,          \* history: the item store when cancel() was called
    emits,              \* the tag the running thread emits with each result
    c_text,             \* the classifier alone: the text given to it
    c_result,           \* what has_arabic_content and _needs_translation said of it
    tr,                 \* BaseTranslator.translate(): the call in progress or returned
    v_item,             \* the item validate_translations looks at
    v_issues,           \* the issues it reported for the item
    bp,                 \* a BatchProcessor and its call of process_in_batches
    run,                \* a run of a translation thread with what it emitted
    tb                  \* a call of translate_batch_optimized

hvars == <<file_path, original_content, translations, modified, encoding, call, ret,
           extracted, imported, build_log>>
cvars == <<cache_file, cache, cache_call, cache_ret, flushed, insertions, start_file,
           loaded>>
wvars == <<workers, set_entries, completed>>
evars == <<source, ex_call, ex_items, raw>>
gvars == <<texts, similarity_threshold, g_groups, processed, current_group, g_i, g_j,
           g_pc, index_groups>>
pvars == <<progress>>
tvars == <<is_cancelled, t_pc, t_next, event_queue, m_pc, stopped, at_cancel, emits>>
lvars == <<c_text, c_result>>
nvars == <<v_item, v_issues>>
uvars == <<run, tb>>
zvars == <<nvars, bp, uvars>>
yvars == <<lvars, tr, zvars>>
xvars == <<evars, gvars, pvars, tvars, yvars>>
vars == <<hvars, cvars, wvars, xvars>>

-----------------------------------------------------------------------------
(* Characters and the character classes of Python's re on str.             *)

ALEF == "ALEF"
NL == "\n"
SQ == "'"
DQ == "\""
BSL == "\\"
BACKTICK == "BACKTICK"    \* stands for the grave accent character

LowerLetters == <<"a", "b", "c", "d", "e", "f", "g", "h", "i", "j", "k", "l", "m",
                  "n", "o", "p", "q", "r", "s", "t", "u", "v", "w", "x", "y", "z">>
UpperLetters == <<"A", "B", "C", "D", "E", "F", "G", "H", "I", "J", "K", "L", "M",
                  "N", "O", "P", "Q", "R", "S", "T", "U", "V", "W", "X", "Y", "Z">>
LatinLower == {LowerLetters[i] : i \in 1..Len(LowerLetters)}
LatinUpper == {UpperLetters[i] : i \in 1..Len(UpperLetters)}
\* [a-zA-Z]
IsLatin(c) == c \in LatinLower \cup LatinUpper
IsArabic(c) == c = ALEF
IsDigit(c) == c \in {"0", "1", "2", "3", "4", "5", "6", "7", "8", "9"}
\* \w : letters of any script, digits, underscore
IsWord(c) == IsLatin(c) \/ IsArabic(c) \/ IsDigit(c) \/ c = "_"
\* \s
IsSpace(c) == c \in {" ", "\t", NL, "\r"}

-----------------------------------------------------------------------------
(* Python str operations.                                                  *)

\* s[i:j] with 1-based inclusive bounds; empty when j < i
Slice(s, i, j) == IF j < i THEN <<>> ELSE SubSeq(s, i, j)

\* s.startswith(p) at 1-based position i
StartsAt(s, p, i) ==
    /\ i >= 1
    /\ i + Len(p) - 1 <= Len(s)
    /\ \A k \in 1..Len(p) : s[i + k - 1] = p[k]

\* p in s
Contains(s, p) == \E i \in 1..(Len(s) + 1) : StartsAt(s, p, i)

\* str.strip()
Strip(s) ==
    LET keep == {i \in 1..Len(s) : ~IsSpace(s[i])}
    IN IF keep = {} THEN <<>>
       ELSE LET lo == CHOOSE i \in keep : \A j \in keep : i <= j
                hi == CHOOSE i \in keep : \A j \in keep : j <= i
            IN SubSeq(s, lo, hi)

LowerChar(c) ==
    IF c \in LatinUpper
    THEN LowerLetters[CHOOSE i \in 1..Len(UpperLetters) : UpperLetters[i] = c]
    ELSE c
\* str.lower()
Lower(s) == [i \in 1..Len(s) |-> LowerChar(s[i])]

\* the position of the first occurrence of old in s, 0 when there is none
FirstOccurrence(s, old) ==
    CHOOSE i \in 0..Len(s) :
        IF i = 0 THEN \A j \in 1..Len(s) : ~StartsAt(s, old, j)
        ELSE StartsAt(s, old, i) /\ \A j \in 1..(i - 1) : ~StartsAt(s, old, j)

RECURSIVE ReplaceAll(_, _, _)
\* str.replace(old, new) for a non-empty old: every non-overlapping occurrence,
\* left to right
ReplaceAll(s, old, new) ==
    CHOOSE r \in { IF p = 0 THEN s
                   ELSE Slice(s, 1, p - 1) \o new
                        \o ReplaceAll(Slice(s, p + Len(old), Len(s)), old, new) :
                   p \in {FirstOccurrence(s, old)} } : TRUE

RECURSIVE SplitKeepingNone(_)
\* str.splitlines(): like split('\n') but without the empty piece after a final newline
SplitKeepingNone(s) ==
    LET nls == {i \in 1..Len(s) : s[i] = NL}
    IN IF s = <<>> THEN <<>>
       ELSE IF nls = {} THEN <<s>>
       ELSE LET p == CHOOSE i \in nls : \A j \in nls : i <= j
            IN <<Slice(s, 1, p - 1)>> \o SplitKeepingNone(Slice(s, p + 1, Len(s)))

RECURSIVE SplitLines(_)
\* str.split('\n'): one more piece than there are newlines
SplitLines(s) ==
    LET nls == {i \in 1..Len(s) : s[i] = NL}
    IN IF nls = {} THEN <<s>>
       ELSE LET p == CHOOSE i \in nls : \A j \in nls : i <= j
            IN <<Slice(s, 1, p - 1)>> \o SplitLines(Slice(s, p + 1, Len(s)))

RECURSIVE JoinLines(_)
\* '\n'.join(lines)
JoinLines(lines) ==
    IF lines = <<>> THEN <<>>
    ELSE IF Len(lines) = 1 THEN lines[1]
         ELSE lines[1] \o <<NL>> \o JoinLines(Tail(lines))

-----------------------------------------------------------------------------
(* utils.has_arabic_content: the majority-script test.                     *)

KeepWordOrSpace(c) == IsWord(c) \/ IsSpace(c)
NotDigit(c) == ~IsDigit(c)
IsLetterCounted(c) == IsLatin(c) \/ IsArabic(c)

has_arabic_content(text) ==
    LET clean_text == SelectSeq(SelectSeq(text, KeepWordOrSpace), NotDigit)
        arabic_chars == Len(SelectSeq(clean_text, IsArabic))
        total_chars == Len(SelectSeq(clean_text, IsLetterCounted))
    IN IF text = <<>> \/ total_chars = 0 THEN FALSE
       ELSE 2 * arabic_chars > total_chars   \* arabic_chars / total_chars > 0.5

-----------------------------------------------------------------------------
(* PHPFileHandler: cleaning, validity and classification of a pair.        *)

MaxKeyLen == 100
MaxValueLen == 500

\* where a backslash followed by a letter starts
EscapeAt(s, i) == i < Len(s) /\ s[i] = BSL /\ IsLatin(s[i + 1])

\* the position of the first such escape in s, 0 when there is none
FirstEscape(s) ==
    CHOOSE i \in 0..Len(s) :
        IF i = 0 THEN \A j \in 1..Len(s) : ~EscapeAt(s, j)
        ELSE EscapeAt(s, i) /\ \A j \in 1..(i - 1) : ~EscapeAt(s, j)

RECURSIVE DropEscapes(_)
\* re.sub(r'\\[a-zA-Z]', '', text)
DropEscapes(s) ==
    CHOOSE r \in { IF p = 0 THEN s
                   ELSE Slice(s, 1, p - 1) \o DropEscapes(Slice(s, p + 2, Len(s))) :
                   p \in {FirstEscape(s)} } : TRUE

_clean_extracted_text(text) ==
    IF text = <<>> THEN <<>>
    ELSE LET t0 == Strip(text)
             t1 == ReplaceAll(t0, <<BSL, "n">>, <<NL>>)
             t2 == ReplaceAll(t1, <<BSL, "t">>, <<"\t">>)
             t3 == ReplaceAll(t2, <<BSL, DQ>>, <<DQ>>)
             t4 == ReplaceAll(t3, <<BSL, SQ>>, <<SQ>>)
         IN DropEscapes(t4)

ProgrammingSymbols ==
    {"{", "}", "[", "]", "<", ">", "/", BSL, "$", "#", "@", "%", "^", "&", "*",
     "(", ")", "+", "=", "|", "~", BACKTICK}

\* re.match(r'^[...]+$', s): $ also matches before one final newline
OnlySymbols(s) ==
    LET body == IF s # <<>> /\ s[Len(s)] = NL THEN Slice(s, 1, Len(s) - 1) ELSE s
    IN body # <<>> /\ \A i \in 1..Len(body) : body[i] \in ProgrammingSymbols

\* the symbol test made on the key
ValidPairByKey(key, value) ==
    /\ key # <<>>
    /\ value # <<>>
    /\ ~(Len(key) > MaxKeyLen \/ Len(value) > MaxValueLen)
    /\ ~OnlySymbols(key)
_is_valid_translation_pair(key, value) ==
    /\ key # <<>>
    /\ value # <<>>
    /\ ~(Len(key) > MaxKeyLen \/ Len(value) > MaxValueLen)
    /\ ~OnlySymbols(value)

NotWordNotSpace(c) == ~IsWord(c) /\ ~IsSpace(c)
UpperOrUnderscore(c) == c \in LatinUpper \/ c = "_"
NumberSeparator(c) == c \in {".", "-"} \/ IsSpace(c)

\* the ten programming_patterns, each tried with re.match on the stripped text
ProgrammingPattern(t) ==
    LET n == Len(t)
    \* ^\$\w+$
    IN \/ (n >= 2 /\ t[1] = "$" /\ (SelectSeq(Tail(t), IsWord) = Tail(t)))
       \/ (n >= 4 /\ StartsAt(t, <<"{", "{">>, 1) /\ StartsAt(t, <<"}", "}">>, n - 1)
                  \* ^\{\{.*\}\}$
                  /\ \A i \in 3..(n - 2) : t[i] # NL)
       \/ (n >= 3 /\ StartsAt(t, <<"(", ")">>, n - 1)
                  \* ^\w+\(\)$
                  /\ (SelectSeq(Slice(t, 1, n - 2), IsWord) = Slice(t, 1, n - 2)))
       \* ^[^\w\s]+$
       \/ (n >= 1 /\ (SelectSeq(t, NotWordNotSpace) = t))
       \/ (\E d \in 2..(n - 1) : /\ t[d] = "."
                                 /\ (SelectSeq(Slice(t, 1, d - 1), IsWord) = Slice(t, 1, d - 1))
                                 \* ^\w+\.\w+$
                                 /\ (SelectSeq(Slice(t, d + 1, n), IsWord) = Slice(t, d + 1, n)))
       \/ StartsAt(t, <<"h", "t", "t", "p", ":", "/", "/">>, 1)            \* ^https?://
       \/ StartsAt(t, <<"h", "t", "t", "p", "s", ":", "/", "/">>, 1)
       \/ StartsAt(t, <<"m", "a", "i", "l", "t", "o", ":">>, 1)            \* ^mailto:
       \* ^\d+[\.\-\s]*\d*$
       \/ (\E a \in 1..n :
              /\ (SelectSeq(Slice(t, 1, a), IsDigit) = Slice(t, 1, a))
              /\ \E b \in a..n :
                    /\ (SelectSeq(Slice(t, a + 1, b), NumberSeparator) = Slice(t, a + 1, b))
                    /\ (SelectSeq(Slice(t, b + 1, n), IsDigit) = Slice(t, b + 1, n)))
       \* ^[A-Z_]+$
       \/ (n >= 1 /\ (SelectSeq(t, UpperOrUnderscore) = t))
       \* ^\w+\[\d+\]$
       \/ (\E o \in 2..(n - 2) : /\ t[o] = "[" /\ t[n] = "]"
                                 /\ (SelectSeq(Slice(t, 1, o - 1), IsWord) = Slice(t, 1, o - 1))
                                 /\ (SelectSeq(Slice(t, o + 1, n - 1), IsDigit) = Slice(t, o + 1, n - 1)))

\* re.match(r'^<[^>]+>$', t)
HtmlTagOnly(t) ==
    LET n == Len(t)
    IN n >= 3 /\ t[1] = "<" /\ t[n] = ">" /\ \A i \in 2..(n - 1) : t[i] # ">"

\* len(re.findall(r'\b[a-zA-Z]+\b', t)): the maximal runs of word characters that
\* are made of ASCII letters only
WordCount(t) ==
    Cardinality({i \in 1..Len(t) :
        /\ IsWord(t[i])
        /\ (i = 1 \/ ~IsWord(t[i - 1]))
        /\ \E j \in i..Len(t) :
              /\ (SelectSeq(Slice(t, i, j), IsLatin) = Slice(t, i, j))
              /\ (j = Len(t) \/ ~IsWord(t[j + 1]))})

\* the classification without the test for Arabic content
NeedsWithoutScriptTest(text) ==
    LET t == Strip(text)
        word_count == WordCount(t)
        symbol_count == Len(SelectSeq(t, NotWordNotSpace))
    IN IF text = <<>> THEN FALSE
       ELSE IF Len(t) < 2 THEN FALSE
       ELSE IF (SelectSeq(t, IsDigit) = t) THEN FALSE
       ELSE IF ProgrammingPattern(t) THEN FALSE
       ELSE IF HtmlTagOnly(t) THEN FALSE
       ELSE IF symbol_count > word_count /\ word_count < 3 THEN FALSE
       ELSE (\E i \in 1..Len(t) : IsLatin(t[i])) /\ word_count > 0
_needs_translation(text) ==
    LET t == Strip(text)
        word_count == WordCount(t)
        symbol_count == Len(SelectSeq(t, NotWordNotSpace))
    IN IF text = <<>> THEN FALSE
       ELSE IF Len(t) < 2 THEN FALSE
       ELSE IF (SelectSeq(t, IsDigit) = t) THEN FALSE
       ELSE IF ProgrammingPattern(t) THEN FALSE
       ELSE IF HtmlTagOnly(t) THEN FALSE
       ELSE IF has_arabic_content(t) THEN FALSE
       ELSE IF symbol_count > word_count /\ word_count < 3 THEN FALSE
       ELSE (\E i \in 1..Len(t) : IsLatin(t[i])) /\ word_count > 0

-----------------------------------------------------------------------------
(* The four quoting patterns and re.finditer over one line.                *)

KeyQuote(p) == IF p \in {0, 2} THEN SQ ELSE DQ
ValueQuote(p) == IF p \in {0, 3} THEN SQ ELSE DQ
PatternIndexes == 0..3

NoMatch == [start |-> 0]

\* the first position >= i holding c; 0 when there is none
NextPos(s, i, c) ==
    LET at == {j \in i..Len(s) : s[j] = c}
    IN IF at = {} THEN 0 ELSE CHOOSE j \in at : \A k \in at : j <= k

\* the position after \s* read from i
SkipSpaces(s, i) ==
    LET stop == {j \in i..Len(s) : ~IsSpace(s[j])}
    IN IF stop = {} THEN Len(s) + 1 ELSE CHOOSE j \in stop : \A k \in stop : j <= k

\* The length limits of a pattern's two groups; Unbounded for + and *.
Unbounded == 0 - 1
StandardLimits == [kmin |-> 1, kmax |-> Unbounded, vmax |-> Unbounded]
Within(n, max) == max = Unbounded \/ n <= max

\* kq([^kq]+)kq\s*=>\s*vq([^vq]*)vq matched at position i: the spans of the two
\* groups (ks..ke the key, vs..ve the value) and of the whole match.  A group
\* cannot hold its own closing quote, so it ends at the next one.
PairAt(s, i, p, lim) ==
    LET kq == KeyQuote(p)
        vq == ValueQuote(p)
        j == NextPos(s, i + 1, kq)
        a == SkipSpaces(s, j + 1)
        b == SkipSpaces(s, a + 2)
        e == NextPos(s, b + 1, vq)
    IN IF i > Len(s) \/ s[i] # kq \/ j = 0 THEN NoMatch
       ELSE IF j - i - 1 < lim.kmin \/ ~Within(j - i - 1, lim.kmax) THEN NoMatch
       ELSE IF ~StartsAt(s, <<"=", ">">>, a) THEN NoMatch
       ELSE IF b > Len(s) \/ s[b] # vq \/ e = 0 THEN NoMatch
       ELSE IF ~Within(e - b - 1, lim.vmax) THEN NoMatch
       ELSE [start |-> i, end |-> e, ks |-> i + 1, ke |-> j - 1,
             vs |-> b + 1, ve |-> e - 1]

\* the least member of a set of positions
Least(positions) == CHOOSE x \in positions : \A y \in positions : x <= y

\* the positions from pos on where pattern p matches
PairStarts(s, pos, p, lim) == {i \in pos..Len(s) : PairAt(s, i, p, lim) # NoMatch}

RECURSIVE FindPairs(_, _, _, _)
RECURSIVE PairsAfter(_, _, _, _)
RECURSIVE PairsFrom(_, _, _, _)
\* the match m, then the matches after its end
PairsAfter(s, m, p, lim) == <<m>> \o FindPairs(s, m.end + 1, p, lim)

\* the leftmost match among starts, then the matches after it
PairsFrom(s, starts, p, lim) ==
    IF starts = {} THEN <<>>
    ELSE PairsAfter(s, PairAt(s, Least(starts), p, lim), p, lim)

\* re.finditer(patterns[p], s) from position pos on: leftmost, non-overlapping
FindPairs(s, pos, p, lim) == PairsFrom(s, PairStarts(s, pos, p, lim), p, lim)

-----------------------------------------------------------------------------
(* Extraction (standard mode).                                             *)

\* line_stripped is empty or starts with //, /*, * or #
SkippedLine(line) ==
    LET t == Strip(line)
    IN \/ t = <<>>
       \/ StartsAt(t, <<"/", "/">>, 1)
       \/ StartsAt(t, <<"/", "*">>, 1)
       \/ StartsAt(t, <<"*">>, 1)
       \/ StartsAt(t, <<"#">>, 1)

\* the dictionary appended for a cleaned key and value
ItemOf(line_number, original_line, p, key, value) ==
    [line_number |-> line_number,
     key |-> key,
     original_value |-> value,
     translated_value |-> value,
     is_translated |-> has_arabic_content(value),
     original_line |-> original_line,
     needs_translation |-> _needs_translation(value),
     pattern_used |-> p,
     translation_type |-> "none"]

TranslationItem(line_number, line, p, m) ==
    ItemOf(line_number, Strip(line), p,
           _clean_extracted_text(Slice(line, m.ks, m.ke)),
           _clean_extracted_text(Slice(line, m.vs, m.ve)))

\* if self._is_valid_translation_pair(key, value): translations.append(...)
ValidItem(item) ==
    IF _is_valid_translation_pair(item.key, item.original_value) THEN <<item>> ELSE <<>>

RECURSIVE MatchItems(_, _, _, _)
\* the items of the matches ms of pattern p on one line, invalid pairs left out
MatchItems(line_number, line, p, ms) ==
    IF ms = <<>> THEN <<>>
    ELSE ValidItem(TranslationItem(line_number, line, p, Head(ms)))
         \o MatchItems(line_number, line, p, Tail(ms))

RECURSIVE PatternsItems(_, _, _, _)
\* for pattern in patterns: for match in re.finditer(pattern, line): ...
PatternsItems(line_number, line, p, lim) ==
    IF p \notin PatternIndexes THEN <<>>
    ELSE MatchItems(line_number, line, p, FindPairs(line, 1, p, lim))
         \o PatternsItems(line_number, line, p + 1, lim)

\* the items of one line: the four patterns in order
LineItems(line_number, line, lim) ==
    IF SkippedLine(line) THEN <<>> ELSE PatternsItems(line_number, line, 0, lim)

RECURSIVE LinesItems(_, _, _)
\* for line_number, line in enumerate(lines, first): ...
LinesItems(lines, first, lim) ==
    IF lines = <<>> THEN <<>>
    ELSE LineItems(first, Head(lines), lim) \o LinesItems(Tail(lines), first + 1, lim)

_extract_translations_standard(content) ==
    LinesItems(SplitLines(content), 1, StandardLimits)

-----------------------------------------------------------------------------
(* Extraction of large files (chunked mode).  Here a source is a document: *)
(* a list of runs, where [n |-> count, text |-> line] stands for count      *)
(* consecutive lines equal to line, so that a source of 100000 lines stays  *)
(* small.  An empty line yields no item in either mode; the runs of empty   *)
(* lines are counted, not visited line by line.                             *)

OptKeyMin == 2
OptKeyMax == 100
OptValueMax == 200
\* the bounds {2,100} and {0,200} of the four large-file patterns
OptimizedLimits == [kmin |-> OptKeyMin, kmax |-> OptKeyMax, vmax |-> OptValueMax]

chunk_size == 10000
MaxLineLen == 1000
MaxOriginalLine == 500

Min(a, b) == IF a <= b THEN a ELSE b

RECURSIVE DocTotal(_)
\* len(lines)
DocTotal(doc) == IF doc = <<>> THEN 0 ELSE Head(doc).n + DocTotal(Tail(doc))

RECURSIVE DocChars(_)
DocChars(doc) ==
    IF doc = <<>> THEN 0 ELSE Head(doc).n * Len(Head(doc).text) + DocChars(Tail(doc))

\* len(self.original_content): the lines and the newlines between them
DocSize(doc) == DocChars(doc) + DocTotal(doc) - 1

\* the document of a text: one run for each line of split('\n')
FlatDoc(content) ==
    LET lines == SplitLines(content)
    IN [i \in 1..Len(lines) |-> [n |-> 1, text |-> lines[i]]]

\* every line of a run at the position of the run's first line
NumberedByRun(doc, at) ==
    [k \in 1..Len(doc) |-> [index |-> at, text |-> doc[k].text]]
RECURSIVE Numbered(_, _)
\* the lines that are not empty, each with its 0-based position in lines
Numbered(doc, at) ==
    IF doc = <<>> THEN <<>>
    ELSE LET r == Head(doc)
         IN (IF r.text = <<>> THEN <<>>
             ELSE [k \in 1..r.n |-> [index |-> at + k - 1, text |-> r.text]])
            \o Numbered(Tail(doc), at + r.n)

RECURSIVE StandardLines(_)
\* _extract_translations_standard over the lines of a document
StandardLines(numbered) ==
    IF numbered = <<>> THEN <<>>
    ELSE LineItems(Head(numbered).index + 1, Head(numbered).text, StandardLimits)
         \o StandardLines(Tail(numbered))

\* as TranslationItem, with 'original_line': line.strip()[:500]
\* s[:n]
Prefix(s, n) == Slice(s, 1, Min(n, Len(s)))

ChunkItem(line_number, line, p, m) ==
    ItemOf(line_number, Prefix(Strip(line), MaxOriginalLine), p,
           _clean_extracted_text(Slice(line, m.ks, m.ke)),
           _clean_extracted_text(Slice(line, m.vs, m.ve)))

RECURSIVE ChunkMatchItems(_, _, _, _)
ChunkMatchItems(line_number, line, p, ms) ==
    IF ms = <<>> THEN <<>>
    ELSE ValidItem(ChunkItem(line_number, line, p, Head(ms)))
         \o ChunkMatchItems(line_number, line, p, Tail(ms))

RECURSIVE ChunkPatternsItems(_, _, _)
\* for pattern in patterns: for match in pattern.finditer(line): ...
ChunkPatternsItems(line_number, line, p) ==
    IF p \notin PatternIndexes THEN <<>>
    ELSE ChunkMatchItems(line_number, line, p, FindPairs(line, 1, p, OptimizedLimits))
         \o ChunkPatternsItems(line_number, line, p + 1)

\* one line of a chunk: comment lines and lines of more than 1000 characters
\* are skipped
ChunkLineItems(line_number, line) ==
    IF SkippedLine(line) THEN <<>>
    ELSE IF Len(line) > MaxLineLen THEN <<>>
    ELSE ChunkPatternsItems(line_number, line, 0)

\* a chunk-local numbering
ChunkLineNumberLocal(start_line_number, line_index) == line_index + 1
\* line_number = start_line_number + line_index + 1
ChunkLineNumber(start_line_number, line_index) == start_line_number + line_index + 1

RECURSIVE _process_lines_chunk(_, _)
\* _process_lines_chunk(lines, start_line_number, patterns); the lines carry
\* their position in the file, line_index is the position in the chunk
_process_lines_chunk(lines, start_line_number) ==
    IF lines = <<>> THEN <<>>
    ELSE LET line_index == Head(lines).index - start_line_number
         IN ChunkLineItems(ChunkLineNumber(start_line_number, line_index),
                           Head(lines).text)
            \o _process_lines_chunk(Tail(lines), start_line_number)

\* lines[chunk_start:chunk_end]
ChunkOf(numbered, chunk_start, chunk_end) ==
    SelectSeq(numbered, LAMBDA l : chunk_start <= l.index /\ l.index < chunk_end)

RECURSIVE ChunksItems(_, _, _)
\* for chunk_start in range(0, total_lines, chunk_size): translations.extend(...)
ChunksItems(numbered, chunk_start, total_lines) ==
    IF chunk_start >= total_lines THEN <<>>
    ELSE LET chunk_end == Min(chunk_start + chunk_size, total_lines)
         IN _process_lines_chunk(ChunkOf(numbered, chunk_start, chunk_end), chunk_start)
            \o ChunksItems(numbered, chunk_start + chunk_size, total_lines)

\* a case-sensitive key
UniqueKeyExact(item) == <<item.key, item.original_value>>
\* unique_key = (item['key'].lower(), item['original_value'].lower())
UniqueKey(item) == <<Lower(item.key), Lower(item.original_value)>>

RECURSIVE DedupFrom(_, _)
DedupFrom(list, seen) ==
    IF list = <<>> THEN <<>>
    ELSE LET unique_key == UniqueKey(Head(list))
         IN IF unique_key \in seen
            THEN DedupFrom(Tail(list), seen)
            ELSE <<Head(list)>>
                 \o DedupFrom(Tail(list), seen \cup {unique_key})

_deduplicate_translations(list) == DedupFrom(list, {})

\* the items of all chunks, before deduplication
OptimizedRaw(doc) == ChunksItems(Numbered(doc, 0), 0, DocTotal(doc))

_extract_translations_optimized(doc) == _deduplicate_translations(OptimizedRaw(doc))

-----------------------------------------------------------------------------
(* The line rewriter.                                                      *)

\* what an operation yields when it raises
RAISE == <<"RAISE">>
Cat(x, y) == IF x = RAISE \/ y = RAISE THEN RAISE ELSE x \o y

OctalDigit(c) == c \in {"0", "1", "2", "3", "4", "5", "6", "7"}
DigitValue(c) ==
    CASE c = "0" -> 0 [] c = "1" -> 1 [] c = "2" -> 2 [] c = "3" -> 3 [] c = "4" -> 4
      [] c = "5" -> 5 [] c = "6" -> 6 [] c = "7" -> 7 [] c = "8" -> 8 [] OTHER -> 9

RECURSIVE ExpandTemplate(_, _)
\* re.sub's reading of a replacement string (sre_parse.parse_template) with the
\* match's groups: \<digits> is a group reference or an octal escape ("OCT" is the
\* character it names), \n and \t are the characters, \a \b \f \r \v are control
\* characters ("CTRL"), a backslash before any other ASCII letter is a bad escape
\* (\g<name> is not modelled: no text of the model holds it), before anything
\* else it stays
ExpandTemplate(t, groups) ==
    IF t = <<>> THEN <<>>
    ELSE IF t[1] # BSL THEN Cat(<<t[1]>>, ExpandTemplate(Tail(t), groups))
    ELSE IF Len(t) = 1 THEN RAISE
    ELSE LET c == t[2]
             two == Len(t) >= 3 /\ IsDigit(t[3])
             octal == /\ two /\ OctalDigit(c) /\ OctalDigit(t[3])
                      /\ Len(t) >= 4 /\ OctalDigit(t[4])
             group == IF two THEN 10 * DigitValue(c) + DigitValue(t[3])
                      ELSE DigitValue(c)
         IN IF c = "0" THEN
                Cat(<<"OCT">>, ExpandTemplate(
                    Slice(t, IF two /\ OctalDigit(t[3])
                             THEN (IF Len(t) >= 4 /\ OctalDigit(t[4]) THEN 5 ELSE 4)
                             ELSE 3, Len(t)), groups))
            ELSE IF IsDigit(c) THEN
                IF octal THEN Cat(<<"OCT">>, ExpandTemplate(Slice(t, 5, Len(t)), groups))
                ELSE IF group > Len(groups) THEN RAISE
                ELSE Cat(groups[group],
                         ExpandTemplate(Slice(t, IF two THEN 4 ELSE 3, Len(t)), groups))
            ELSE IF c = "n" THEN Cat(<<NL>>, ExpandTemplate(Slice(t, 3, Len(t)), groups))
            ELSE IF c = "t" THEN Cat(<<"\t">>, ExpandTemplate(Slice(t, 3, Len(t)), groups))
            ELSE IF c \in {"a", "b", "f", "r", "v"} THEN
                Cat(<<"CTRL">>, ExpandTemplate(Slice(t, 3, Len(t)), groups))
            ELSE IF c = BSL THEN Cat(<<BSL>>, ExpandTemplate(Slice(t, 3, Len(t)), groups))
            ELSE IF IsLatin(c) THEN RAISE
            ELSE Cat(<<BSL, c>>, ExpandTemplate(Slice(t, 3, Len(t)), groups))

\* new_value.replace("'", "\\'").replace('"', '\\"')
EscapeQuotes(new_value) ==
    ReplaceAll(ReplaceAll(new_value, <<SQ>>, <<BSL, SQ>>), <<DQ>>, <<BSL, DQ>>)

\* replacement_patterns[p], p in 0..3, matched at position i:
\*   (kq ORIGINAL kq \s* => \s* vq)([^vq]*) vq
\* The escaped original_value sits between the KEY's quotes.
KeyedAt(s, i, original_value, p) ==
    LET kq == KeyQuote(p)
        vq == ValueQuote(p)
        j == i + Len(original_value) + 1
        a == SkipSpaces(s, j + 1)
        b == SkipSpaces(s, a + 2)
        e == NextPos(s, b + 1, vq)
    IN IF i > Len(s) \/ s[i] # kq \/ ~StartsAt(s, original_value, i + 1) THEN NoMatch
       ELSE IF j > Len(s) \/ s[j] # kq THEN NoMatch
       ELSE IF ~StartsAt(s, <<"=", ">">>, a) THEN NoMatch
       ELSE IF b > Len(s) \/ s[b] # vq \/ e = 0 THEN NoMatch
       ELSE [start |-> i, end |-> e, vs |-> b + 1, ve |-> e - 1]

\* the positions from pos on where replacement pattern p matches
KeyedStarts(s, pos, original_value, p) ==
    {i \in pos..Len(s) : KeyedAt(s, i, original_value, p) # NoMatch}

RECURSIVE SubKeyed(_, _, _, _, _)
RECURSIVE SubKeyedAt(_, _, _, _, _, _)
RECURSIVE SubKeyedFrom(_, _, _, _, _, _)
\* the text before the match m, the expanded template rf"\1{new_value_safe}<vq>"
\* with m's two groups, then the substitution after m
SubKeyedAt(s, pos, m, original_value, p, new_value_safe) ==
    Cat(Cat(Slice(s, pos, m.start - 1),
            ExpandTemplate(<<BSL, "1">> \o new_value_safe \o <<ValueQuote(p)>>,
                           <<Slice(s, m.start, m.vs - 1), Slice(s, m.vs, m.ve)>>)),
        SubKeyed(s, m.end + 1, original_value, p, new_value_safe))

\* the leftmost match among starts is substituted, the rest follows
SubKeyedFrom(s, pos, starts, original_value, p, new_value_safe) ==
    IF starts = {} THEN Slice(s, pos, Len(s))
    ELSE SubKeyedAt(s, pos, KeyedAt(s, Least(starts), original_value, p),
                    original_value, p, new_value_safe)

\* re.sub(replacement_patterns[p][0], rf"\1{new_value_safe}<vq>", s) from pos on
SubKeyed(s, pos, original_value, p, new_value_safe) ==
    SubKeyedFrom(s, pos, KeyedStarts(s, pos, original_value, p),
                 original_value, p, new_value_safe)

\* \b at the gap before position i (1..Len(s)+1)
WordBoundary(s, i) ==
    (i > 1 /\ IsWord(s[i - 1])) # (i <= Len(s) /\ IsWord(s[i]))

\* replacement_patterns[4]: \bORIGINAL\b matched at position i
BareAt(s, i, original_value) ==
    /\ StartsAt(s, original_value, i)
    /\ WordBoundary(s, i)
    /\ WordBoundary(s, i + Len(original_value))

RECURSIVE SubBare(_, _, _, _)
\* re.sub(rf'\b{original_escaped}\b', new_value_safe, s) from pos on
SubBare(s, pos, original_value, new_value_safe) ==
    LET starts == {i \in pos..Len(s) : BareAt(s, i, original_value)}
    IN IF starts = {} THEN Slice(s, pos, Len(s))
       ELSE LET i == CHOOSE x \in starts : \A y \in starts : x <= y
            IN Cat(Cat(Slice(s, pos, i - 1), ExpandTemplate(new_value_safe, <<>>)),
                   SubBare(s, i + Len(original_value), original_value, new_value_safe))

\* re.search of replacement pattern k (0..3 keyed, 4 bare) on the line
PatternFound(line, original_value, k) ==
    IF k = 4 THEN \E i \in 1..Len(line) : BareAt(line, i, original_value)
    ELSE \E i \in 1..Len(line) : KeyedAt(line, i, original_value, k) # NoMatch

SubPattern(line, original_value, new_value_safe, k) ==
    IF k = 4 THEN SubBare(line, 1, original_value, new_value_safe)
    ELSE SubKeyed(line, 1, original_value, k, new_value_safe)

RECURSIVE TryPatterns(_, _, _, _)
RECURSIVE TryResult(_, _, _, _, _)
\* if updated_line != line: return updated_line; otherwise the next pattern
TryResult(line, original_value, new_value_safe, k, updated_line) ==
    IF updated_line # line THEN updated_line
    ELSE TryPatterns(line, original_value, new_value_safe, k + 1)

\* the loop over replacement_patterns from pattern k on, then the plain replace
TryPatterns(line, original_value, new_value_safe, k) ==
    IF k > 4 THEN
        IF Contains(line, original_value)
        THEN ReplaceAll(line, original_value, new_value_safe)
        ELSE line
    ELSE IF PatternFound(line, original_value, k)
         THEN TryResult(line, original_value, new_value_safe, k,
                        SubPattern(line, original_value, new_value_safe, k))
         ELSE TryPatterns(line, original_value, new_value_safe, k + 1)

\* pattern_used is accepted and never read
_update_line_translation(line, original_value, new_value, pattern_used) ==
    TryPatterns(line, original_value, EscapeQuotes(new_value), 0)

RECURSIVE SortedByLineDesc(_)
\* sorted(translations, key=line_number, reverse=True): stable, so items of one
\* line keep their order in the list
SortedByLineDesc(items) ==
    IF items = <<>> THEN <<>>
    ELSE LET top == CHOOSE i \in 1..Len(items) :
                      /\ \A j \in 1..Len(items) :
                            items[j].line_number <= items[i].line_number
                      /\ \A j \in 1..(i - 1) :
                            items[j].line_number < items[i].line_number
         IN <<items[top]>>
            \o SortedByLineDesc(Slice(items, 1, top - 1) \o Slice(items, top + 1, Len(items)))

\* the condition under which an item is written back
RewriteGuard(translation) ==
    /\ translation.is_translated
    /\ has_arabic_content(translation.translated_value)
    /\ translation.translated_value # translation.original_value

RECURSIVE ApplyTranslations(_, _)
RECURSIVE ApplyOne(_, _, _)
RECURSIVE ApplyUpdated(_, _, _, _)
\* lines[line_index] = updated_line, then the items that follow; an exception
\* raised by re.sub ends the loop
ApplyUpdated(lines, line_index, updated_line, sorted_translations) ==
    IF updated_line = RAISE THEN <<RAISE>>
    ELSE ApplyTranslations([lines EXCEPT ![line_index + 1] = updated_line],
                           sorted_translations)

\* the index the way a list takes it: one below zero is the last line
Wrapped(line_index, n) == IF line_index < 0 THEN n + line_index ELSE line_index

\* one item of the loop without the test 0 <= line_index
ApplyOneWrapping(lines, translation, sorted_translations) ==
    IF /\ RewriteGuard(translation)
       /\ 0 - Len(lines) <= translation.line_number - 1
       /\ translation.line_number - 1 < Len(lines)
    THEN ApplyUpdated(lines, Wrapped(translation.line_number - 1, Len(lines)),
                      _update_line_translation(
                          lines[Wrapped(translation.line_number - 1, Len(lines)) + 1],
                          translation.original_value,
                          translation.translated_value,
                          translation.pattern_used),
                      sorted_translations)
    ELSE ApplyTranslations(lines, sorted_translations)
\* one item of the loop, then the items that follow
ApplyOne(lines, translation, sorted_translations) ==
    IF /\ RewriteGuard(translation)
       /\ 0 <= translation.line_number - 1
       /\ translation.line_number - 1 < Len(lines)
    THEN ApplyUpdated(lines, translation.line_number - 1,
                      _update_line_translation(lines[translation.line_number],
                                               translation.original_value,
                                               translation.translated_value,
                                               translation.pattern_used),
                      sorted_translations)
    ELSE ApplyTranslations(lines, sorted_translations)

\* the loop of _build_new_content over the sorted items
ApplyTranslations(lines, sorted_translations) ==
    IF sorted_translations = <<>> THEN lines
    ELSE ApplyOne(lines, Head(sorted_translations), Tail(sorted_translations))

\* '\n'.join(lines), or the exception
JoinOrRaise(lines) == IF lines = <<RAISE>> THEN RAISE ELSE JoinLines(lines)

_build_new_content(content, items) ==
    JoinOrRaise(ApplyTranslations(SplitLines(content), SortedByLineDesc(items)))

-----------------------------------------------------------------------------
(* The files a user may open.  Each is a path with what the file system    *)
(* holds there: kind "php" is a readable .php file with its text and the   *)
(* first candidate encoding that decodes it.                               *)

PairLine(p, key, value) ==
    <<KeyQuote(p)>> \o key \o <<KeyQuote(p), " ", "=", ">", " ", ValueQuote(p)>>
    \o value \o <<ValueQuote(p), ",">>

CommentLine == <<"/", "/", " ", "c">>

SourceFiles ==
    {   \* one pair in double quotes
        [path |-> "plain.php", kind |-> "php", enc |-> "utf-8",
         text |-> PairLine(1, <<"k">>, <<"a", " ", "b">>)],
        \* a comment, a key that holds the value as a whole word, a final newline
        [path |-> "keyword.php", kind |-> "php", enc |-> "utf-8",
         text |-> JoinLines(<<CommentLine, PairLine(0, <<"a", " ", "b">>, <<"b">>), <<>>>>)],
        \* a blank line, then a key equal to its value
        [path |-> "same.php", kind |-> "php", enc |-> "windows-1256",
         text |-> JoinLines(<<<<>>, PairLine(0, <<"b">>, <<"b">>)>>)],
        \* two pairs on one line in mixed quotes, the same value in both, the
        \* value ending in punctuation
        [path |-> "twice.php", kind |-> "php", enc |-> "utf-8",
         text |-> PairLine(2, <<"k">>, <<"a", "!">>) \o <<" ">>
                  \o PairLine(3, <<"n">>, <<"a", "!">>)],
        \* no pair at all
        [path |-> "empty.php", kind |-> "php", enc |-> "utf-8", text |-> CommentLine],
        [path |-> "gone.php", kind |-> "missing", enc |-> "utf-8", text |-> <<>>],
        [path |-> "notes.txt", kind |-> "not_php", enc |-> "utf-8", text |-> <<>>],
        [path |-> "locked.php", kind |-> "unreadable", enc |-> "utf-8", text |-> <<>>] }

\* the texts a caller may pass to update_translation
NewValues == { <<ALEF>>, <<ALEF, SQ, ALEF>>, <<"a">> }

TranslationTypes == {"manual", "auto"}

LargeFileThreshold == 100000

\* the extraction load_file runs on a text
_extract_translations(content) ==
    IF Len(content) > LargeFileThreshold
    THEN _extract_translations_optimized(FlatDoc(content))
    ELSE _extract_translations_standard(content)

\* an original_value of a project file that the source no longer holds
Drifted == <<"z">>

\* how an item of a project file may differ from the loaded source: recorded
\* before the first line, after the last line, or with another original value
Drifts == {"before", "after", "value"}

\* an item of a project file saved from another state of the source
DriftedItem(item, drift, n) ==
    IF drift = "before" THEN [item EXCEPT !.line_number = 0]
    ELSE IF drift = "after" THEN [item EXCEPT !.line_number = n + 1]
    ELSE [item EXCEPT !.original_value = Drifted]

\* import_project_data(project_data) with the items of a project file of
\* which one is not as the loaded source has it
ImportDrifted ==
    \E i \in 1..Len(translations), drift \in Drifts :
        /\ call' = [op |-> "import", index |-> 0]
        /\ UNCHANGED <<cvars, wvars, xvars>>
        /\ translations' =
              [translations EXCEPT
                  ![i] = DriftedItem(@, drift, Len(SplitLines(original_content)))]
        /\ modified' = TRUE
        /\ ret' = "True"
        /\ imported' = TRUE
        /\ build_log' = <<>>
        /\ UNCHANGED <<file_path, original_content, encoding, extracted>>

-----------------------------------------------------------------------------
(* The translation cache (utils.py, class TranslationCache).               *)

\* utils.py: len(self.cache) % 10
FlushEvery == 10

MaxInsertions == 2

\* clean_text_for_cache(text)
clean_text_for_cache(text) ==
    IF text = <<>> THEN <<>> ELSE Strip(Lower(text))

EmptyMap == [k \in {} |-> <<>>]
Digits == <<"0", "1", "2", "3", "4", "5", "6", "7", "8", "9">>
PreloadedKeys(n) == { <<"p", Digits[i]>> : i \in 1..n }
Preloaded(n) == [k \in PreloadedKeys(n) |-> <<ALEF>>]
PreloadSizes == {0, 9, 10}

\* what CACHE_FILE may hold when the process starts
StartFiles ==
    { [kind |-> k, data |-> EmptyMap] :
          k \in {"missing", "unreadable", "corrupt", "array", "scalar"} }
    \cup { [kind |-> "dict", data |-> Preloaded(n)] : n \in PreloadSizes }

CacheTexts == { <<"a">>, <<" ", "A">>, <<"p", "1">> }
CacheValues == { <<ALEF>>, <<ALEF, ALEF>> }
IoOutcomes == {"ok", "open_fails", "write_fails"}

\* load_cache(): json.load of a document that is not an object succeeds
load_cache(file) ==
    IF file.kind = "dict" THEN [type |-> "dict", map |-> file.data]
    ELSE IF file.kind = "array" THEN [type |-> "list", map |-> EmptyMap]
    ELSE IF file.kind = "scalar" THEN [type |-> "scalar", map |-> EmptyMap]
    ELSE [type |-> "dict", map |-> EmptyMap]

\* what json.dump(self.cache) writes
Dumped(c) ==
    IF c.type = "dict" THEN [kind |-> "dict", data |-> c.map]
    ELSE IF c.type = "list" THEN [kind |-> "array", data |-> EmptyMap]
    ELSE [kind |-> "scalar", data |-> EmptyMap]

\* save_cache(): the file it leaves; every exception is caught
save_cache(c, file, io) ==
    IF io = "open_fails" THEN file
    ELSE IF io = "write_fails" THEN [kind |-> "corrupt", data |-> EmptyMap]
    ELSE Dumped(c)

\* self.cache[clean_text] = translation
Store(map, key, value) ==
    [k \in (DOMAIN map) \cup {key} |-> IF k = key THEN value ELSE map[k]]

\* len(self.cache) % 10 == 0
FlushDue(map) == Cardinality(DOMAIN map) % FlushEvery = 0

NoValue == [kind |-> "None", value |-> <<>>]
Raised == [kind |-> "raise", value |-> <<>>]

\* self.cache.get(clean_text)
Lookup(c, key) ==
    IF c.type # "dict" THEN Raised
    ELSE IF key \in DOMAIN c.map THEN [kind |-> "value", value |-> c.map[key]]
    ELSE NoValue

\* TranslationCache(): __init__ with the file found on disk
CacheStart(f) ==
    /\ cache_file = f
    /\ start_file = f
    /\ cache = load_cache(f)
    /\ loaded = load_cache(f)
    /\ cache_call = [op |-> "init", text |-> <<>>, value |-> <<>>]
    /\ cache_ret = NoValue
    /\ flushed = FALSE
    /\ insertions = 0

Workers == {"w1", "w2"}
Idle == [pc |-> "idle", key |-> <<>>, value |-> <<>>, size |-> 0,
         snap |-> EmptyMap, overlapped |-> FALSE]
WorkersStart ==
    /\ workers = [w \in Workers |-> Idle]
    /\ set_entries = {}
    /\ completed = {}

\* get(text)
CacheGet ==
    \E text \in CacheTexts :
        /\ cache_call' = [op |-> "get", text |-> text, value |-> <<>>]
        /\ cache_ret' = Lookup(cache, clean_text_for_cache(text))
        /\ flushed' = FALSE
        /\ UNCHANGED <<cache_file, cache, insertions, start_file, loaded>>
        /\ UNCHANGED <<hvars, wvars, xvars>>

\* set(text, translation)
CacheSet ==
    \E text \in CacheTexts, translation \in CacheValues, io \in IoOutcomes :
        LET clean_text == clean_text_for_cache(text)
            new == clean_text \notin DOMAIN cache.map
            map == Store(cache.map, clean_text, translation)
        IN /\ new => insertions < MaxInsertions
           /\ cache_call' = [op |-> "set", text |-> text, value |-> translation]
           /\ IF cache.type # "dict"
              THEN /\ cache_ret' = Raised          \* TypeError
                   /\ flushed' = FALSE
                   /\ UNCHANGED <<cache_file, cache, insertions>>
              ELSE /\ cache' = [cache EXCEPT !.map = map]
                   /\ cache_ret' = NoValue
                   /\ insertions' = IF new THEN insertions + 1 ELSE insertions
                   /\ flushed' = FlushDue(map)
                   /\ cache_file' = IF FlushDue(map)
                                    THEN save_cache(cache', cache_file, io)
                                    ELSE cache_file
           /\ UNCHANGED <<start_file, loaded>>
           /\ UNCHANGED <<hvars, wvars, xvars>>

\* main.py clear_cache(): translation_cache.cache.clear(); save_cache()
ClearCache ==
    \E io \in IoOutcomes :
        /\ cache_call' = [op |-> "clear", text |-> <<>>, value |-> <<>>]
        /\ flushed' = FALSE
        /\ IF cache.type = "scalar"
           THEN /\ cache_ret' = Raised             \* AttributeError
                /\ UNCHANGED <<cache_file, cache>>
           ELSE /\ cache' = [cache EXCEPT !.map = EmptyMap]
                /\ cache_ret' = NoValue
                /\ cache_file' = save_cache(cache', cache_file, io)
        /\ UNCHANGED <<insertions, start_file, loaded>>
        /\ UNCHANGED <<hvars, wvars, xvars>>

\* main.py closeEvent(): translation_cache.save_cache()
SaveCache ==
    \E io \in IoOutcomes :
        /\ cache_call' = [op |-> "save", text |-> <<>>, value |-> <<>>]
        /\ cache_ret' = NoValue
        /\ flushed' = FALSE
        /\ cache_file' = save_cache(cache, cache_file, io)
        /\ UNCHANGED <<cache, insertions, start_file, loaded>>
        /\ UNCHANGED <<hvars, wvars, xvars>>


\* the workers of a batch run call set concurrently; nothing locks the cache
WorkerTexts == { <<"a">>, <<"b">> }

Truncated == [kind |-> "corrupt", data |-> EmptyMap]
Writing(w) == workers[w].pc \in {"dump", "iterate"}

\* the items a dict iteration can yield while values are being overwritten
Mixes(snap, map) ==
    { f \in [DOMAIN map -> CacheValues] :
          \A k \in DOMAIN map : f[k] = map[k] \/ (k \in DOMAIN snap /\ f[k] = snap[k]) }

\* get(text) called by a worker
WorkerGet(w) ==
    \E text \in WorkerTexts :
        /\ workers[w].pc = "idle"
        /\ cache_call' = [op |-> "get", text |-> text, value |-> <<>>]
        /\ cache_ret' = Lookup(cache, clean_text_for_cache(text))
        /\ UNCHANGED <<cache_file, cache, flushed, insertions, start_file, loaded>>
        /\ UNCHANGED <<hvars, wvars, xvars>>

\* set(), up to and including self.cache[clean_text] = translation
SetStore(w) ==
    \E text \in WorkerTexts, translation \in CacheValues :
        LET clean_text == clean_text_for_cache(text)
            new == clean_text \notin DOMAIN cache.map
        IN /\ workers[w].pc = "idle"
           /\ new => insertions < MaxInsertions
           /\ cache_call' = [op |-> "set", text |-> text, value |-> translation]
           /\ IF cache.type # "dict"
              THEN /\ cache_ret' = Raised          \* TypeError
                   /\ UNCHANGED <<cache, insertions, wvars>>
              ELSE /\ cache' = [cache EXCEPT
                                   !.map = Store(cache.map, clean_text, translation)]
                   /\ cache_ret' = NoValue
                   /\ insertions' = IF new THEN insertions + 1 ELSE insertions
                   /\ set_entries' = set_entries \cup {<<clean_text, translation>>}
                   /\ workers' = [workers EXCEPT ![w] =
                                     [@ EXCEPT !.pc = "check", !.key = clean_text,
                                               !.value = translation]]
                   /\ UNCHANGED completed
           /\ UNCHANGED <<cache_file, flushed, start_file, loaded>>
           /\ UNCHANGED <<hvars, xvars>>

\* set(): if len(self.cache) % 10 == 0: self.save_cache()
SetCheck(w) ==
    /\ workers[w].pc = "check"
    /\ IF FlushDue(cache.map)
       THEN /\ workers' = [workers EXCEPT ![w].pc = "open"]
            /\ UNCHANGED completed
       ELSE /\ workers' = [workers EXCEPT ![w] = Idle]
            /\ completed' = completed \cup {workers[w].key}
    /\ UNCHANGED <<cvars, hvars, xvars, set_entries>>

\* save_cache(): open(CACHE_FILE, 'w') truncates the file
SaveOpen(w) ==
    /\ workers[w].pc = "open"
    /\ cache_file' = Truncated
    /\ workers' = [v \in Workers |->
                      IF v = w
                      THEN [workers[v] EXCEPT
                               !.pc = "dump",
                               !.overlapped = \E u \in Workers \ {w} : Writing(u)]
                      ELSE IF Writing(v)
                           THEN [workers[v] EXCEPT !.overlapped = TRUE]
                           ELSE workers[v]]
    /\ UNCHANGED <<cache, cache_call, cache_ret, flushed, insertions, start_file,
                   loaded>>
    /\ UNCHANGED <<hvars, xvars, set_entries, completed>>

\* save_cache(): json.dump starts to iterate self.cache
DumpBegin(w) ==
    /\ workers[w].pc = "dump"
    /\ workers' = [workers EXCEPT ![w] =
                      [@ EXCEPT !.pc = "iterate",
                                !.size = Cardinality(DOMAIN cache.map),
                                !.snap = cache.map]]
    /\ UNCHANGED <<cvars, hvars, xvars, set_entries, completed>>

\* save_cache(): the iteration ends (RuntimeError if the dict changed size,
\* caught by save_cache), the file is closed, set returns
DumpEnd(w) ==
    /\ workers[w].pc = "iterate"
    /\ IF Cardinality(DOMAIN cache.map) # workers[w].size
       THEN cache_file' = Truncated
       ELSE \E data \in Mixes(workers[w].snap, cache.map) :
                \/ cache_file' = [kind |-> "dict", data |-> data]
                \/ workers[w].overlapped /\ cache_file' = Truncated
    /\ workers' = [workers EXCEPT ![w] = Idle]
    /\ completed' = completed \cup {workers[w].key}
    /\ UNCHANGED <<cache, cache_call, cache_ret, flushed, insertions, start_file,
                   loaded>>
    /\ UNCHANGED <<hvars, xvars, set_entries>>


-----------------------------------------------------------------------------
(* PHPFileHandler as a state machine.                                      *)

HandlerInit ==
    /\ file_path = "None"
    /\ original_content = <<>>
    /\ translations = <<>>
    /\ modified = FALSE
    /\ encoding = "utf-8"
    /\ call = [op |-> "init", index |-> 0]
    /\ ret = "None"
    /\ extracted = <<>>
    /\ imported = FALSE
    /\ build_log = <<>>

Log(log, text) == IF Len(log) < 2 THEN Append(log, text) ELSE <<log[2], text>>

\* what _extract_translations yields for each file's text (evaluated once)
ExtractedItems == [f \in SourceFiles |-> _extract_translations(f.text)]

\* load_file without the assignment self.modified = False
LoadFileKeepsFlag ==
    \E f \in SourceFiles :
        /\ call' = [op |-> "load", index |-> 0]
        /\ UNCHANGED <<cvars, wvars, xvars>>
        /\ file_path' = f.path
        /\ IF f.kind = "php"
           THEN /\ original_content' = f.text
                /\ encoding' = f.enc
                /\ translations' = ExtractedItems[f]
                /\ modified' = modified
                /\ ret' = "True"
                /\ extracted' = translations'
                /\ imported' = FALSE
                /\ build_log' = <<>>
           ELSE /\ ret' = "raise"
                /\ UNCHANGED <<original_content, encoding, translations, modified,
                               extracted, imported, build_log>>
\* load_file(file_path): file_path is assigned before any check
LoadFile ==
    \E f \in SourceFiles :
        /\ call' = [op |-> "load", index |-> 0]
        /\ UNCHANGED <<cvars, wvars, xvars>>
        /\ file_path' = f.path
        /\ IF f.kind = "php"
           THEN /\ original_content' = f.text
                /\ encoding' = f.enc
                /\ translations' = ExtractedItems[f]
                /\ modified' = FALSE
                /\ ret' = "True"
                /\ extracted' = translations'
                /\ imported' = FALSE
                /\ build_log' = <<>>
           ELSE /\ ret' = "raise"
                /\ UNCHANGED <<original_content, encoding, translations, modified,
                               extracted, imported, build_log>>

\* 0 <= index < len(self.translations)
IndexInRangeLoose(index, n) == index < n
IndexInRange(index, n) == 0 <= index /\ index < n

\* the position (1-based) that Python's translations[index] addresses
PyPosition(index, n) == IF index < 0 THEN n + index + 1 ELSE index + 1

\* the three assignments of update_translation to the addressed item
UpdatedItemClobber(item, translated_text, translation_type) ==
    [item EXCEPT !.original_value = translated_text,
                 !.translated_value = translated_text,
                 !.is_translated = has_arabic_content(translated_text),
                 !.translation_type = translation_type]
UpdatedItem(item, translated_text, translation_type) ==
    [item EXCEPT !.translated_value = translated_text,
                 !.is_translated = has_arabic_content(translated_text),
                 !.translation_type = translation_type]

UpdateTranslation ==
    \E index \in (0 - 1)..Len(translations) :
    \E translated_text \in NewValues :
    \E translation_type \in TranslationTypes :
        LET n == Len(translations)
            pos == PyPosition(index, n)
        IN /\ call' = [op |-> "update", index |-> index]
           /\ UNCHANGED <<cvars, wvars, xvars>>
           /\ IF IndexInRange(index, n)
              THEN IF pos \in 1..n
                   THEN /\ translations' =
                              [translations EXCEPT ![pos] =
                                  UpdatedItem(@, translated_text, translation_type)]
                        /\ modified' = TRUE
                        /\ ret' = "True"
                        /\ build_log' = <<>>
                        /\ UNCHANGED <<file_path, original_content, encoding,
                                       extracted, imported>>
                   ELSE /\ ret' = "raise"      \* IndexError
                        /\ UNCHANGED <<file_path, original_content, translations,
                                       modified, encoding, extracted, imported,
                                       build_log>>
              ELSE /\ ret' = "False"
                   /\ UNCHANGED <<file_path, original_content, translations, modified,
                                  encoding, extracted, imported, build_log>>

\* a direct call of _build_new_content()
BuildNewContent ==
    \E new_content \in {_build_new_content(original_content, translations)} :
        /\ call' = [op |-> "build", index |-> 0]
        /\ UNCHANGED <<cvars, wvars, xvars>>
        /\ ret' = IF new_content = RAISE THEN "raise" ELSE "text"
        /\ build_log' = Log(build_log, new_content)
        /\ UNCHANGED <<file_path, original_content, translations, modified, encoding,
                       extracted, imported>>

\* save_file(): create_backup swallows its own errors; building the text or
\* opening/writing the file may raise, and then modified is not reset
SaveFileKeepsText ==
    \E new_content \in {_build_new_content(original_content, translations)} :
    \E io_ok \in BOOLEAN :
        /\ call' = [op |-> "save", index |-> 0]
        /\ UNCHANGED <<cvars, wvars, xvars>>
        /\ build_log' = Log(build_log, new_content)
        /\ IF new_content # RAISE /\ io_ok /\ file_path # "None"
           THEN /\ modified' = FALSE
                /\ ret' = "True"
                /\ original_content' = new_content
           ELSE /\ ret' = "raise"
                /\ UNCHANGED <<modified, original_content>>
        /\ UNCHANGED <<file_path, translations, encoding, extracted, imported>>
SaveFile ==
    \E new_content \in {_build_new_content(original_content, translations)} :
    \E io_ok \in BOOLEAN :
        /\ call' = [op |-> "save", index |-> 0]
        /\ UNCHANGED <<cvars, wvars, xvars>>
        /\ build_log' = Log(build_log, new_content)
        /\ IF new_content # RAISE /\ io_ok /\ file_path # "None"
           THEN /\ modified' = FALSE
                /\ ret' = "True"
           ELSE /\ ret' = "raise"
                /\ UNCHANGED modified
        /\ UNCHANGED <<file_path, original_content, translations, encoding,
                       extracted, imported>>

\* import_project_data(project_data): the record of a project file is taken as it
\* is.  The project data offered are the current items with any is_translated
\* flags (a project file is JSON on disk: written by save_project, then possibly
\* edited or written by another version).
ImportProjectData ==
    \E flags \in [1..Len(translations) -> BOOLEAN] :
        /\ call' = [op |-> "import", index |-> 0]
        /\ UNCHANGED <<cvars, wvars, xvars>>
        /\ translations' = [i \in 1..Len(translations) |->
                               [translations[i] EXCEPT !.is_translated = flags[i]]]
        /\ modified' = TRUE
        /\ ret' = "True"
        /\ imported' = TRUE
        /\ build_log' = <<>>
        /\ UNCHANGED <<file_path, original_content, encoding, extracted>>

-----------------------------------------------------------------------------
(* Extraction as a function of the source: the documents given to it.      *)

Rep(c, n) == [i \in 1..n |-> c]

Greeting == <<"g", "r", "e", "e", "t", "i", "n", "g">>
HelloWorld == <<"h", "e", "l", "l", "o", " ", "w", "o", "r", "l", "d">>

ExtractLines ==
    {   \* 'greeting' => 'hello world',
        PairLine(0, Greeting, HelloWorld),
        \* the same pair in capitals and double quotes
        PairLine(1, <<"G", "R", "E", "E", "T", "I", "N", "G">>,
                    <<"H", "E", "L", "L", "O", " ", "W", "O", "R", "L", "D">>),
        \* a key of one character
        PairLine(0, <<"k">>, <<"v">>),
        \* 'a' => 'bb' => 'cc' => 'dd'
        <<SQ, "a", SQ, " ", "=", ">", " ", SQ, "b", "b", SQ, " ", "=", ">", " ", SQ, "c", "c", SQ, " ", "=", ">", " ", SQ, "d", "d", SQ>>,
        CommentLine,
        \* a pair followed by spaces up to 1001 characters
        PairLine(0, <<"k", "k">>, <<"v">>) \o Rep(" ", 990),
        \* a pair followed by a comment of 600 characters
        PairLine(0, <<"k", "k">>, <<"w">>) \o <<" ", "/", "/">> \o Rep("x", 600),
        \* the length bounds of the two modes, met and passed by one
        PairLine(0, Rep("y", 100), Rep("x", 200)),
        PairLine(0, <<"l", "l">>, Rep("x", 201)),
        PairLine(0, Rep("y", 101), <<"v">>),
        PairLine(0, <<"m", "m">>, Rep("x", 500)),
        PairLine(0, <<"n", "n">>, Rep("x", 501)),
        \* two pairs on one line, in the two mixed quotings
        PairLine(2, <<"k", "k">>, <<"v">>) \o <<" ">> \o PairLine(3, <<"n", "n">>, <<"w">>),
        \* a key, then a value, made of programming symbols
        PairLine(0, <<"$", "$">>, <<"v">>),
        PairLine(0, <<"k", "k">>, <<"#", "#">>),
        \* a value of one symbol and the escape \n
        PairLine(0, <<"k", "k">>, <<"#", BSL, "n">>),
        \* an empty value, a key that is empty after cleaning
        PairLine(0, <<"k", "k">>, <<>>),
        PairLine(0, <<" ", " ">>, <<"v">>) }

BlankRuns == {1, 4, 9999, 10000, 100000}

LineRuns == { [n |-> 1, text |-> t] : t \in ExtractLines }
             \cup { [n |-> 2, text |-> PairLine(0, Greeting, HelloWorld)] }
EmptyRuns == { [n |-> k, text |-> <<>>] : k \in BlankRuns }

\* lines that repeat a pair of another line, in the same or in other letters
RepeatingRuns ==
    { [n |-> 1, text |-> t] :
        t \in { PairLine(0, Greeting, HelloWorld),
                PairLine(1, <<"G", "R", "E", "E", "T", "I", "N", "G">>,
                            <<"H", "E", "L", "L", "O", " ", "W", "O", "R", "L", "D">>),
                PairLine(2, <<"k", "k">>, <<"v">>) \o <<" ">> \o PairLine(3, <<"n", "n">>, <<"w">>),
                PairLine(0, <<"k", "k">>, <<"v">>) \o Rep(" ", 990) } }

\* one run; empty lines, then a line; two or three runs with repeated pairs
Documents ==
    { <<r>> : r \in LineRuns \cup EmptyRuns }
    \cup { <<e, r>> : e \in EmptyRuns, r \in LineRuns }
    \cup { <<r1, r2>> : r1 \in RepeatingRuns, r2 \in RepeatingRuns }
    \cup { <<e, r1, r2>> : e \in {[n |-> 100000, text |-> <<>>]},
                           r1 \in RepeatingRuns, r2 \in RepeatingRuns }

IsLarge(doc) == DocSize(doc) > LargeFileThreshold

ExtractIdle ==
    /\ source = <<>>
    /\ ex_call = "none"
    /\ ex_items = <<>>
    /\ raw = <<>>

\* load_file's extraction: the mode is chosen by the size of the source
LoadExtract ==
    /\ ex_call' = "load"
    /\ raw' = IF IsLarge(source) THEN OptimizedRaw(source)
              ELSE StandardLines(Numbered(source, 0))
    /\ ex_items' = IF IsLarge(source) THEN _deduplicate_translations(raw') ELSE raw'
    /\ UNCHANGED <<source, hvars, cvars, wvars, gvars, pvars, tvars, yvars>>

\* _extract_translations_standard() on the source
ExtractStandard ==
    /\ ex_call' = "standard"
    /\ raw' = StandardLines(Numbered(source, 0))
    /\ ex_items' = raw'
    /\ UNCHANGED <<source, hvars, cvars, wvars, gvars, pvars, tvars, yvars>>

\* _extract_translations_optimized() on the source
ExtractOptimized ==
    /\ ex_call' = "optimized"
    /\ raw' = OptimizedRaw(source)
    /\ ex_items' = _deduplicate_translations(raw')
    /\ UNCHANGED <<source, hvars, cvars, wvars, gvars, pvars, tvars, yvars>>


-----------------------------------------------------------------------------
(* smart_text_grouping, one loop iteration at a time.                      *)

GroupCap == 10

\* set(text.lower().split()): the maximal runs of characters that are not spaces
WordSet(text) ==
    LET n == Len(text)
    IN { Slice(Lower(text), ab[1], ab[2]) :
           ab \in { ab \in (1..n) \X (1..n) :
                      /\ ab[1] <= ab[2]
                      /\ \A k \in ab[1]..ab[2] : ~IsSpace(text[k])
                      /\ (ab[1] = 1 \/ IsSpace(text[ab[1] - 1]))
                      /\ (ab[2] = n \/ IsSpace(text[ab[2] + 1])) } }

\* intersection / union as a fraction; 0 when either text has no words
calculate_similarity(text1, text2) ==
    LET words1 == WordSet(text1)
        words2 == WordSet(text2)
    IN IF words1 = {} \/ words2 = {} THEN [num |-> 0, den |-> 1]
       ELSE [num |-> Cardinality(words1 \cap words2),
             den |-> Cardinality(words1 \cup words2)]

\* similarity >= similarity_threshold
AtLeast(similarity, threshold) ==
    similarity.num * threshold.den >= threshold.num * similarity.den

\* the text the candidates are compared with: the last member of the group
LastMember(group) == group[Len(group)]
\* the text the candidates are compared with: text, the seed of the group
ComparedWith(group) == group[1]

\* the cap tested after the group has grown past it
CapPassed(group) == Len(group) > GroupCap
\* if len(current_group) >= 10: break
CapReached(group) == Len(group) >= GroupCap

Hello == <<"h", "e", "l", "l", "o", " ", "w", "o", "r", "l", "d">>
HelloTest == <<"h", "e", "l", "l", "o", " ", "w", "o", "r", "l", "d", " ", "t", "e", "s", "t">>
TestWorld == <<"t", "e", "s", "t", " ", "w", "o", "r", "l", "d">>
HelloSpaced == <<"H", "e", "l", "l", "o", " ", " ", " ", "W", "O", "R", "L", "D">>
Unrelated == <<"t", "o", "t", "a", "l", "l", "y", " ", "u", "n", "r", "e", "l", "a", "t", "e", "d", " ", "p", "h", "r", "a", "s", "e">>

Thresholds == { [num |-> 1, den |-> 2], [num |-> 7, den |-> 10] }

GroupInputs ==
    {   <<Hello, HelloTest, Unrelated>>,
        <<Hello, HelloTest, TestWorld, HelloSpaced, <<>>, TestWorld>>,
        <<<<>>, <<>>, Unrelated, Hello>>,
        <<HelloTest, TestWorld, Hello, Hello>> }
    \cup { Rep(Hello, n) \o <<HelloTest, Unrelated>> : n \in 9..12 }
    \cup { <<Hello, Unrelated, HelloTest>> \o Rep(HelloSpaced, n) \o <<Hello>> : n \in 7..9 }

GroupIdle ==
    /\ texts = <<>>
    /\ similarity_threshold = [num |-> 7, den |-> 10]
    /\ g_groups = <<>>
    /\ processed = {}
    /\ current_group = <<>>
    /\ g_i = 0
    /\ g_j = 0
    /\ g_pc = "done"
    /\ index_groups = <<>>

\* the loop head without 'if i in processed: continue'
SeedAlways ==
    /\ g_pc = "outer"
    /\ g_i < Len(texts)
    /\ current_group' = <<texts[g_i + 1]>>
    /\ processed' = processed \cup {g_i}
    /\ index_groups' = Append(index_groups, <<g_i>>)
    /\ g_j' = g_i + 1
    /\ g_pc' = "inner"
    /\ UNCHANGED g_i
    /\ UNCHANGED <<texts, similarity_threshold, g_groups, hvars, cvars, wvars, evars, pvars, tvars, yvars>>

\* for i, text in enumerate(texts): one pass of the loop head; an unclaimed
\* text seeds a group
Seed ==
    /\ g_pc = "outer"
    /\ g_i < Len(texts)
    /\ IF g_i \in processed
       THEN /\ g_i' = g_i + 1
            /\ UNCHANGED <<current_group, processed, g_j, g_pc, index_groups>>
       ELSE /\ current_group' = <<texts[g_i + 1]>>
            /\ processed' = processed \cup {g_i}
            /\ index_groups' = Append(index_groups, <<g_i>>)
            /\ g_j' = g_i + 1
            /\ g_pc' = "inner"
            /\ UNCHANGED g_i
    /\ UNCHANGED <<texts, similarity_threshold, g_groups, hvars, cvars, wvars, evars, pvars, tvars, yvars>>

\* for j, other_text in enumerate(texts[i+1:], i+1): one pass of the body
Scan ==
    /\ g_pc = "inner"
    /\ g_j < Len(texts)
    /\ IF g_j \notin processed
          /\ AtLeast(calculate_similarity(ComparedWith(current_group), texts[g_j + 1]),
                     similarity_threshold)
       THEN /\ current_group' = Append(current_group, texts[g_j + 1])
            /\ processed' = processed \cup {g_j}
            /\ index_groups' = [index_groups EXCEPT
                                   ![Len(index_groups)] = Append(@, g_j)]
            /\ IF CapReached(current_group')
               THEN \* break, then groups.append(current_group)
                    /\ g_groups' = Append(g_groups, current_group')
                    /\ g_i' = g_i + 1
                    /\ g_pc' = "outer"
                    /\ UNCHANGED g_j
               ELSE /\ g_j' = g_j + 1
                    /\ UNCHANGED <<g_groups, g_i, g_pc>>
       ELSE /\ g_j' = g_j + 1
            /\ UNCHANGED <<current_group, processed, index_groups, g_groups, g_i, g_pc>>
    /\ UNCHANGED <<texts, similarity_threshold, hvars, cvars, wvars, evars, pvars, tvars, yvars>>

\* the inner loop is exhausted: groups.append(current_group)
CloseGroup ==
    /\ g_pc = "inner"
    /\ g_j >= Len(texts)
    /\ g_groups' = Append(g_groups, current_group)
    /\ g_i' = g_i + 1
    /\ g_pc' = "outer"
    /\ UNCHANGED <<texts, similarity_threshold, processed, current_group, g_j,
                   index_groups, hvars, cvars, wvars, evars, pvars, tvars, yvars>>

\* return groups
ReturnGroups ==
    /\ g_pc = "outer"
    /\ g_i >= Len(texts)
    /\ g_pc' = "done"
    /\ UNCHANGED <<texts, similarity_threshold, g_groups, processed, current_group, g_i,
                   g_j, index_groups, hvars, cvars, wvars, evars, pvars, tvars, yvars>>


-----------------------------------------------------------------------------
(* Python float arithmetic on the values get_translation_progress meets:   *)
(* IEEE 754 binary64, rounded to nearest, ties to even.  A float is a      *)
(* string of Precision binary digits, the first one 1 and of weight 2^exp; *)
(* zero has no digits.                                                     *)

Precision == 53

Zeros(n) == [i \in 1..n |-> 0]
FloatZero == [bits |-> <<>>, exp |-> 0]

RECURSIVE Pow2Mod(_, _)
\* 2^k mod n
Pow2Mod(k, n) ==
    IF k = 0 THEN 1 % n
    ELSE IF k % 2 = 0 THEN (Pow2Mod(k \div 2, n) * Pow2Mod(k \div 2, n)) % n
    ELSE (2 * Pow2Mod(k - 1, n)) % n

\* the first count binary digits of r/n after the point (0 <= r < n), then one
\* digit that is 1 iff something is left: long division, the remainder before
\* digit k being r 2^(k-1) mod n
BinaryDigits(r, n, count) ==
    [k \in 1..(count + 1) |->
        IF k <= count
        THEN (IF 2 * ((r * Pow2Mod(k - 1, n)) % n) >= n THEN 1 ELSE 0)
        ELSE (IF (r * Pow2Mod(count, n)) % n = 0 THEN 0 ELSE 1)]

\* digits + 1; one digit longer when the carry runs out of the string
PlusOne(digits) ==
    LET n == Len(digits)
        carried(i) == \A j \in (i + 1)..n : digits[j] = 1
    IN IF carried(0)
       THEN <<1>> \o Zeros(n)
       ELSE [i \in 1..n |-> IF carried(i) THEN 1 - digits[i] ELSE digits[i]]

\* the float nearest to a digit string that starts with 1 and whose first digit
\* weighs 2^exp
RoundToDouble(digits, exp) ==
    IF Len(digits) <= Precision
    THEN [bits |-> digits \o Zeros(Precision - Len(digits)), exp |-> exp]
    ELSE LET kept == SubSeq(digits, 1, Precision)
             half == digits[Precision + 1] = 1
             more == \E i \in (Precision + 2)..Len(digits) : digits[i] = 1
             up == half /\ (more \/ kept[Precision] = 1)
             raised == PlusOne(kept)
         IN IF ~up THEN [bits |-> kept, exp |-> exp]
            ELSE IF Len(raised) > Precision
                 THEN [bits |-> SubSeq(raised, 1, Precision), exp |-> exp + 1]
                 ELSE [bits |-> raised, exp |-> exp]

\* a / b for integers 0 <= a <= b, b > 0
FloatDivide(a, b) ==
    IF a = 0 THEN FloatZero
    ELSE LET k == CHOOSE k \in 0..20 :
                      a * 2^k >= b /\ (k = 0 \/ a * 2^(k - 1) < b)
         IN RoundToDouble(<<1>> \o BinaryDigits(a * 2^k - b, b, Precision), 0 - k)

\* the sum of two digit strings of one length, one digit longer: a carry
\* enters position i when a position to its right produces one (both digits 1)
\* and every position between passes it on (one digit 1)
AddDigits(x, y) ==
    LET n == Len(x)
        carry(i) == IF \E j \in (i + 1)..n :
                          /\ x[j] + y[j] = 2
                          /\ \A m \in (i + 1)..(j - 1) : x[m] + y[m] = 1
                    THEN 1 ELSE 0
    IN [i \in 1..(n + 1) |->
           IF i = 1 THEN carry(0) ELSE (x[i - 1] + y[i - 1] + carry(i - 1)) % 2]

\* f * 100, as 64 f + 32 f + 4 f
FloatTimes100(f) ==
    IF f.bits = <<>> THEN FloatZero
    ELSE LET product ==
                 AddDigits(AddDigits(Zeros(1) \o f.bits \o Zeros(6),
                                     Zeros(2) \o f.bits \o Zeros(5)),
                           Zeros(6) \o f.bits \o Zeros(2))
             first == CHOOSE i \in 1..Len(product) :
                          product[i] = 1 /\ \A j \in 1..(i - 1) : product[j] = 0
         IN RoundToDouble(SubSeq(product, first, Len(product)), f.exp + 10 - first)

RECURSIVE DigitsValue(_)
DigitsValue(digits) ==
    IF digits = <<>> THEN 0
    ELSE 2 * DigitsValue(SubSeq(digits, 1, Len(digits) - 1)) + digits[Len(digits)]

\* int(f) for a float 0 <= f < 2^31: the digits of weight 1 and more
PyInt(f) ==
    IF f.bits = <<>> \/ f.exp < 0 THEN 0
    ELSE DigitsValue(SubSeq(f.bits, 1, f.exp + 1))

-----------------------------------------------------------------------------
(* Progress of a translation run over a loaded file.                       *)

NeedingTranslation(list) == SelectSeq(list, LAMBDA item : item.needs_translation)
Translated(list) ==
    SelectSeq(list, LAMBDA item :
        item.needs_translation /\ has_arabic_content(item.translated_value))

get_translation_progress(list) ==
    LET total_items == Len(NeedingTranslation(list))
        translated_items == Len(Translated(list))
    IN IF total_items = 0 THEN 100
       ELSE PyInt(FloatTimes100(FloatDivide(translated_items, total_items)))

\* the numbers of lines that need translation in the files of a run
ItemCounts == {0, 1, 2, 3, 7, 50}

\* a file of one pair that needs no translation and count pairs that do
ManyPairs(count) ==
    JoinLines(<<PairLine(1, <<"n">>, <<"1">>)>>
              \o Rep(PairLine(1, <<"k">>, <<"a", " ", "b">>), count))

ProgressIdle == progress = 0 - 1

\* update_translation(index, text, 'auto') on the first untranslated item, as
\* the translation run does for one item after the other
TranslateNext ==
    \E pos \in 1..Len(translations) :
        /\ translations[pos].needs_translation
        /\ ~has_arabic_content(translations[pos].translated_value)
        /\ \A before \in 1..(pos - 1) :
              translations[before].needs_translation
                  => has_arabic_content(translations[before].translated_value)
        /\ translations' = [translations EXCEPT ![pos] = UpdatedItem(@, <<ALEF>>, "auto")]
        /\ modified' = TRUE
        /\ call' = [op |-> "update", index |-> pos - 1]
        /\ ret' = "True"
        /\ build_log' = <<>>
        /\ UNCHANGED <<file_path, original_content, encoding, extracted, imported,
                       cvars, wvars, xvars>>

GetProgress ==
    /\ progress' = get_translation_progress(translations)
    /\ call' = [op |-> "progress", index |-> 0]
    /\ UNCHANGED <<file_path, original_content, translations, modified, encoding, ret,
                   extracted, imported, build_log, cvars, wvars, evars, gvars, tvars, yvars>>


-----------------------------------------------------------------------------
(* A translation run: TranslationThread.run() beside the main thread.  The  *)
(* thread's signals are queued to the main thread, whose event loop calls  *)
(* the slots; inside stop_translation() the main thread handles no event.  *)

\* (row, original_text) for each selected row; every row of the table is selected
items_to_translate ==
    [i \in 1..Len(translations) |-> [index |-> i - 1, text |-> translations[i].original_value]]

\* what translate() may give for a text: a translation, or the text itself
TranslateResults(text) == { <<ALEF>>, text }

\* the tag of TranslationThread and the tag of SmartTranslationThread
ThreadTags == {"auto", "smart"}

ThreadIdle ==
    /\ is_cancelled = FALSE
    /\ t_pc = "none"
    /\ t_next = 1
    /\ event_queue = <<>>
    /\ m_pc = "loop"
    /\ stopped = FALSE
    /\ at_cancel = <<>>
    /\ emits = "auto"

\* for index, text in batch: if self.is_cancelled: break
ThreadCheck ==
    /\ t_pc = "check"
    /\ t_pc' = IF is_cancelled \/ t_next > Len(items_to_translate)
               THEN "finished" ELSE "translate"
    /\ UNCHANGED <<is_cancelled, t_next, event_queue, m_pc, stopped, at_cancel, emits,
                   hvars, cvars, wvars, evars, gvars, pvars, yvars>>

\* translate() returns; translation_completed.emit(index, ..., "auto"), or
\* "smart" in SmartTranslationThread
ThreadTranslate ==
    /\ t_pc = "translate"
    /\ \E translated \in TranslateResults(items_to_translate[t_next].text) :
          event_queue' = Append(event_queue,
                                [index |-> items_to_translate[t_next].index,
                                 text |-> translated, tag |-> emits])
    /\ t_next' = t_next + 1
    /\ t_pc' = "check"
    /\ UNCHANGED <<is_cancelled, m_pc, stopped, at_cancel, emits,
                   hvars, cvars, wvars, evars, gvars, pvars, yvars>>

\* the event loop delivers one event: on_translation_completed(row_index,
\* translated_text, ...), which ends in update_translation(row_index, translated_text)
OnTranslationCompleted ==
    /\ m_pc = "loop"
    /\ event_queue # <<>>
    /\ event_queue' = Tail(event_queue)
    /\ translations' =
          [translations EXCEPT ![Head(event_queue).index + 1] =
              UpdatedItem(@, Head(event_queue).text, "manual")]
    /\ modified' = TRUE
    /\ call' = [op |-> "update", index |-> Head(event_queue).index]
    /\ ret' = "True"
    /\ build_log' = <<>>
    /\ UNCHANGED <<file_path, original_content, encoding, extracted, imported,
                   is_cancelled, t_pc, t_next, m_pc, stopped, at_cancel, emits,
                   cvars, wvars, evars, gvars, pvars, yvars>>

\* stop_translation(): cancel() on a running thread, then wait(5000)
StopTranslation ==
    /\ m_pc = "loop"
    /\ ~stopped
    /\ IF t_pc \in {"check", "translate"}
       THEN /\ is_cancelled' = TRUE
            /\ at_cancel' = translations
            /\ m_pc' = "wait"
            /\ UNCHANGED stopped
       ELSE /\ stopped' = TRUE
            /\ UNCHANGED <<is_cancelled, at_cancel, m_pc>>
    /\ UNCHANGED <<t_pc, t_next, event_queue, emits,
                   hvars, cvars, wvars, evars, gvars, pvars, yvars>>

\* wait(5000) returns: the thread has finished, or five seconds have passed
\* while it is inside translate(); stop_translation() then returns
StopReturns ==
    /\ m_pc = "wait"
    /\ t_pc \in {"finished", "translate"}
    /\ m_pc' = "loop"
    /\ stopped' = TRUE
    /\ UNCHANGED <<is_cancelled, t_pc, t_next, event_queue, at_cancel, emits,
                   hvars, cvars, wvars, evars, gvars, pvars, yvars>>


-----------------------------------------------------------------------------
(* The classifier as a function of the text.                               *)

MaxTextLen == 4

\* one character of each class the two functions tell apart
ClassChars == {ALEF, "a", "B", " ", "1", "$"}

ClassTexts == UNION { [1..n -> ClassChars] : n \in 0..MaxTextLen }

NotClassified ==
    [is_translated |-> FALSE, needs_translation |-> FALSE, items |-> <<>>, done |-> FALSE]

\* the file of one line that holds the text as the value of the key 'kk'
ValueFile(text) == PairLine(0, <<"k", "k">>, text)

ClassifyIdle ==
    /\ c_text = <<>>
    /\ c_result = NotClassified

\* has_arabic_content(text) and _needs_translation(text), and the items
\* extracted from the file that holds the text as a value
Classify ==
    /\ ~c_result.done
    /\ c_result' = [is_translated |-> has_arabic_content(c_text),
                    needs_translation |-> _needs_translation(c_text),
                    items |-> _extract_translations_standard(ValueFile(c_text)),
                    done |-> TRUE]
    /\ UNCHANGED <<c_text, tr, zvars, hvars, cvars, wvars, evars, gvars, pvars, tvars>>

-----------------------------------------------------------------------------
(* BaseTranslator.translate(text, use_cache): the cache lookup, up to three *)
(* requests, the cache write.                                              *)

max_retries == 3

\* the Arabic word and the colon that replace a leading "ex"
ExampleWord == <<ALEF, ALEF, ALEF, ALEF, ":", " ">>

RECURSIVE StripQuotes(_)
\* .strip('"\'')
StripQuotes(s) ==
    IF s = <<>> THEN <<>>
    ELSE IF s[1] \in {DQ, SQ} THEN StripQuotes(Tail(s))
    ELSE IF s[Len(s)] \in {DQ, SQ} THEN StripQuotes(SubSeq(s, 1, Len(s) - 1))
    ELSE s

\* text.replace('_', ' ') and re.sub(r'\s*-\s*', ' ', text): the spaces around
\* a hyphen are merged by the later re.sub(r'\s+', ' ', text)
SeparatorsToSpaces(s) == [i \in 1..Len(s) |-> IF s[i] \in {"_", "-"} THEN " " ELSE s[i]]

\* re.sub(r'^ex\s*:?\s*', <the Arabic word>, text, flags=re.IGNORECASE)
ExampleOpening(s) ==
    IF Len(s) >= 2 /\ Lower(SubSeq(s, 1, 2)) = <<"e", "x">>
    THEN ExampleWord \o Slice(s, SkipSpaces(s, IF SkipSpaces(s, 3) <= Len(s)
                                                   /\ s[SkipSpaces(s, 3)] = ":"
                                                THEN SkipSpaces(s, 3) + 1
                                                ELSE SkipSpaces(s, 3)), Len(s))
    ELSE s

RECURSIVE CollapseSpaces(_)
\* re.sub(r'\s+', ' ', text)
CollapseSpaces(s) ==
    IF s = <<>> THEN <<>>
    ELSE IF IsSpace(s[1])
         THEN <<" ">> \o CollapseSpaces(Slice(s, SkipSpaces(s, 1), Len(s)))
         ELSE <<s[1]>> \o CollapseSpaces(Tail(s))

\* the text after the substitutions, before the test for an empty result
CleanedForTranslation(text) ==
    Strip(CollapseSpaces(ExampleOpening(SeparatorsToSpaces(StripQuotes(Strip(text))))))

Null == <<"n", "u", "l", "l">>
Undefined == <<"u", "n", "d", "e", "f", "i", "n", "e", "d">>

clean_text_for_translation(text) ==
    IF text = <<>> THEN <<>>
    ELSE IF Lower(CleanedForTranslation(text)) \in {<<>>, Null, Undefined} THEN <<>>
    ELSE CleanedForTranslation(text)

\* apply_terminology(text): whole English terms of DELIVERY_TERMINOLOGY are
\* replaced; the answers of the model hold no Latin letter, so none occurs
apply_terminology(text) == text

\* if translated.startswith(q) and translated.endswith(q): translated[1:-1]
Unquote(s, q) ==
    IF s # <<>> /\ s[1] = q /\ s[Len(s)] = q THEN Slice(s, 2, Len(s) - 1) ELSE s

format_translation_result(original, translated) ==
    IF translated = <<>> THEN original
    ELSE Unquote(Unquote(apply_terminology(Strip(translated)), DQ), SQ)

TranslateTexts ==
    { <<>>, <<"P", "1">>, Null, <<"e", "x", ":", " ", "a">>,
      <<SQ, "a", "_", "b", SQ>> }

\* what _make_request may answer
Answers == { <<>>, <<DQ, ALEF, DQ>>, <<" ", ALEF>> }

\* how one inv of _make_request ends: an answer, an exception whose message
\* names an authorization error, any other exception
RequestOutcomes == {"ok", "authorization", "temporary"}

TranslateIdle ==
    tr = [pc |-> "idle", text |-> <<>>, use_cache |-> FALSE, clean_text |-> <<>>,
          attempt |-> 0, log |-> <<>>, ret |-> <<>>]

\* the return of translate() with a value
Returned(inv, value) == [inv EXCEPT !.pc = "returned", !.ret = value]

\* translate(): from the inv to the first request
TranslateCall ==
    \E text \in TranslateTexts, use_cache \in BOOLEAN :
        LET clean_text == clean_text_for_translation(text)
            inv == [pc |-> "request", text |-> text, use_cache |-> use_cache,
                     clean_text |-> clean_text, attempt |-> 0, log |-> <<>>,
                     ret |-> <<>>]
            cached_result == Lookup(cache, clean_text_for_cache(clean_text))
        IN /\ tr.pc # "request"
           /\ IF clean_text = <<>> THEN
                 /\ tr' = Returned(inv, text)
                 /\ UNCHANGED <<cache_call, cache_ret>>
              ELSE IF ~use_cache THEN
                 /\ tr' = inv
                 /\ UNCHANGED <<cache_call, cache_ret>>
              ELSE
                 /\ cache_call' = [op |-> "get", text |-> clean_text, value |-> <<>>]
                 /\ cache_ret' = cached_result
                 /\ tr' = IF cached_result = Raised
                          THEN [inv EXCEPT !.pc = "raised"]   \* AttributeError
                          ELSE IF cached_result.kind = "value"
                                  /\ cached_result.value # <<>>
                               THEN Returned(inv, cached_result.value)
                               ELSE inv
           /\ UNCHANGED <<cache_file, cache, flushed, insertions, start_file, loaded>>
           /\ UNCHANGED <<hvars, wvars, evars, gvars, pvars, tvars, lvars, zvars>>

\* what the except clause does with an exception
AfterFailure(inv, authorization) ==
    IF authorization THEN Returned(inv, inv.text)
    ELSE IF inv.attempt < max_retries - 1
         THEN [inv EXCEPT !.attempt = @ + 1]
         ELSE Returned(inv, inv.text)

\* one pass of the loop: _make_request, format_translation_result,
\* translation_cache.set, or the except clause (with use_cache the loop is
\* reached only when the cache is a dict, so set does not raise)
TranslateAttempt ==
    \E outcome \in RequestOutcomes, translated \in Answers, io \in IoOutcomes :
        LET formatted_result == format_translation_result(tr.text, translated)
            key == clean_text_for_cache(tr.clean_text)
            new == key \notin DOMAIN cache.map
            map == Store(cache.map, key, formatted_result)
            inv == [tr EXCEPT !.log = Append(@, outcome)]
        IN /\ tr.pc = "request"
           /\ IF outcome # "ok" THEN
                 /\ tr' = AfterFailure(inv, outcome = "authorization")
                 /\ UNCHANGED cvars
              ELSE IF ~tr.use_cache THEN
                 /\ tr' = Returned(inv, formatted_result)
                 /\ UNCHANGED cvars
              ELSE
                 /\ new => insertions < MaxInsertions
                 /\ tr' = Returned([inv EXCEPT !.log = Append(@, "set")],
                                   formatted_result)
                 /\ cache_call' = [op |-> "set", text |-> tr.clean_text,
                                   value |-> formatted_result]
                 /\ cache_ret' = NoValue
                 /\ cache' = [cache EXCEPT !.map = map]
                 /\ insertions' = IF new THEN insertions + 1 ELSE insertions
                 /\ flushed' = FlushDue(map)
                 /\ cache_file' = IF FlushDue(map)
                                  THEN save_cache(cache', cache_file, io)
                                  ELSE cache_file
                 /\ UNCHANGED <<start_file, loaded>>
           /\ UNCHANGED <<hvars, wvars, evars, gvars, pvars, tvars, lvars, zvars>>


\* what the variables added for the later operations hold while they rest
-----------------------------------------------------------------------------
(* validate_translations(): the checks made on one item.                   *)

MaxTokens == 2

\* what the values of the validated items are made of
Tokens == { <<"<", "b", ">">>, <<"<", "i", ">">>, <<"<">>, <<"a">>, <<ALEF>> }

RECURSIVE TokenTexts(_)
TokenTexts(n) ==
    IF n = 0 THEN { <<>> }
    ELSE TokenTexts(n - 1) \cup { s \o t : s \in TokenTexts(n - 1), t \in Tokens }

\* the end of a match of <[^>]+> that starts at i, or 0
TagEnd(s, i) ==
    IF s[i] = "<" /\ \E j \in (i + 2)..Len(s) : s[j] = ">"
                  /\ s[i + 1] # ">"
    THEN Least({ j \in (i + 2)..Len(s) : s[j] = ">" })
    ELSE 0

RECURSIVE TagsFrom(_, _)
RECURSIVE TagsAfter(_, _, _)
\* the match found at i, then the search after it; or the search from i + 1
TagsAfter(s, i, end) ==
    IF end = 0 THEN TagsFrom(s, i + 1)
    ELSE <<Slice(s, i, end)>> \o TagsFrom(s, end + 1)

\* re.findall(r'<[^>]+>', s) from position i on
TagsFrom(s, i) ==
    IF i > Len(s) THEN <<>> ELSE TagsAfter(s, i, TagEnd(s, i))

\* original.strip().lower() == translated.strip().lower()
SameText(original, translated) == Lower(Strip(original)) = Lower(Strip(translated))

\* the issue types validate_translations appends for one item
ItemIssues(item) ==
    (IF item.needs_translation /\ Strip(item.translated_value) = <<>>
     THEN <<"empty_translation">> ELSE <<>>)
    \o (IF /\ item.needs_translation
           /\ SameText(item.original_value, item.translated_value)
           /\ ~has_arabic_content(item.translated_value)
        THEN <<"unchanged_translation">> ELSE <<>>)
    \o (IF TagsFrom(item.original_value, 1) # TagsFrom(item.translated_value, 1)
        THEN <<"html_mismatch">> ELSE <<>>)

NoItem == [original_value |-> <<>>, translated_value |-> <<>>, needs_translation |-> FALSE]

NotValidated == <<"none">>

ValidateIdle ==
    /\ v_item = NoItem
    /\ v_issues = NotValidated

\* validate_translations() on a store that holds the item
ValidateTranslations ==
    /\ v_issues = NotValidated
    /\ v_issues' = ItemIssues(v_item)
    /\ UNCHANGED <<v_item, bp, uvars, lvars, tr, hvars, cvars, wvars, evars, gvars, pvars,
                   tvars>>


-----------------------------------------------------------------------------
(* BatchProcessor (performance_manager.py): process_in_batches.            *)

MaxItems == 3
MaxCalls == 2

\* the lists passed as items: 1, 2, ... n
BatchItems == { [k \in 1..n |-> k] : n \in 0..MaxItems }

\* what process_func returns for one element
Processed(item) == item + 10

\* BatchProcessor(batch_size) before its first call
NewProcessor(batch_size) ==
    [batch_size |-> batch_size, processed_count |-> 0, calls |-> 0, pc |-> "idle",
     items |-> <<>>, i |-> 0, results |-> <<>>, succeeded |-> 0, progress |-> <<>>]

BatchIdle == bp = NewProcessor(1)

\* items[i:i + self.batch_size]
Batch(items, i, batch_size) == Slice(items, i + 1, Min(i + batch_size, Len(items)))

\* process_in_batches(items, process_func, progress_callback): the call
ProcessInBatches ==
    \E items \in BatchItems :
        /\ bp.pc \in {"idle", "returned"}
        /\ bp.calls < MaxCalls
        /\ bp' = [bp EXCEPT !.calls = @ + 1, !.pc = "loop", !.items = items, !.i = 0,
                            !.results = <<>>, !.succeeded = 0, !.progress = <<>>]
        /\ UNCHANGED <<nvars, uvars, lvars, tr, hvars, cvars, wvars, evars, gvars, pvars,
                       tvars>>

\* the batch was processed: its results, the count, the progress callback
BatchDone(b, batch) ==
    [b EXCEPT !.results = @ \o [k \in 1..Len(batch) |-> Processed(batch[k])],
              !.processed_count = @ + Len(batch),
              !.succeeded = @ + 1,
              !.progress = Append(@, [current |-> b.processed_count + Len(batch),
                                      total |-> Len(b.items)]),
              !.i = @ + b.batch_size]

\* process_func raised: the batch itself is added to the results
BatchFailed(b, batch) ==
    [b EXCEPT !.results = @ \o batch, !.i = @ + b.batch_size]

\* one pass of the loop over the batches, or the return after the last
ProcessBatch ==
    \E raises \in BOOLEAN :
        /\ bp.pc = "loop"
        /\ bp' = IF bp.i >= Len(bp.items) THEN [bp EXCEPT !.pc = "returned"]
                 ELSE IF raises
                      THEN BatchFailed(bp, Batch(bp.items, bp.i, bp.batch_size))
                      ELSE BatchDone(bp, Batch(bp.items, bp.i, bp.batch_size))
        /\ UNCHANGED <<nvars, uvars, lvars, tr, hvars, cvars, wvars, evars, gvars, pvars,
                       tvars>>


-----------------------------------------------------------------------------
(* TranslationThread.run and SmartTranslationThread.run with the signals   *)
(* they emit.                                                              *)

MaxQueue == 3

\* the models a smart run may assign to an entry
Models == {"m1", "m2"}

\* the entries of a queue: (index, text, model); the batch thread has no model
Entry(index, model) == [index |-> index, text |-> <<"t", Digits[index + 1]>>, model |-> model]

Queues(kind) ==
    UNION { { [k \in 1..n |-> Entry(k - 1, f[k])] :
                 f \in [1..n -> IF kind = "smart" THEN Models ELSE {"m1"}] } :
            n \in 0..MaxQueue }

\* the entries in the order the thread takes them: the batch thread in the
\* order of the queue, the smart thread model after model (model_groups)
RECURSIVE GroupedByModel(_)
GroupedByModel(queue) ==
    IF queue = <<>> THEN <<>>
    ELSE SelectSeq(queue, LAMBDA e : e.model = queue[1].model)
         \o GroupedByModel(SelectSeq(queue, LAMBDA e : e.model # queue[1].model))

RunOrder(queue, kind) == IF kind = "smart" THEN GroupedByModel(queue) ELSE queue

\* the signals
Completed(index, text, tag) ==
    [sig |-> "translation_completed", a |-> index, b |-> text, tag |-> tag]
Progress(count, total) ==
    [sig |-> "progress_updated", a |-> count, b |-> total, tag |-> ""]
Signal(name) == [sig |-> name, a |-> 0, b |-> 0, tag |-> ""]

NoRun == [kind |-> "auto", pc |-> "none", queue |-> <<>>, order |-> <<>>, pos |-> 1,
          completed |-> 0, is_cancelled |-> FALSE, was_cancelled |-> FALSE, log |-> <<>>]

RunIdle == run = NoRun

\* what translate() / smart_translate() may do with a text
RunOutcomes == {"translated", "same", "empty", "raises"}

\* the text emitted with translation_completed
EmittedText(text, outcome) == IF outcome = "translated" THEN <<ALEF>> ELSE text

\* translation_completed, completed += 1, progress_updated
EntryDone(r, entry, outcome) ==
    [r EXCEPT !.pos = @ + 1,
              !.completed = @ + 1,
              !.log = @ \o (IF outcome = "raises" THEN <<Signal("error_occurred")>> ELSE <<>>)
                        \o <<Completed(entry.index, EmittedText(entry.text, outcome), r.kind),
                             Progress(r.completed + 1, Len(r.queue))>>]

\* check_internet_connection() is false: error_occurred, msleep, continue
EntrySkipped(r) ==
    [r EXCEPT !.pos = @ + 1, !.log = Append(@, Signal("error_occurred"))]

\* the loops are left, by break or at their end: finally finished_all.emit()
RunFinished(r) == [r EXCEPT !.pc = "finished", !.log = Append(@, Signal("finished_all"))]

\* one pass of the loop over the entries, or the end of run()
RunStep ==
    \E online \in BOOLEAN, outcome \in RunOutcomes :
        /\ run.pc = "running"
        /\ run' = IF run.is_cancelled \/ run.pos > Len(run.order) THEN RunFinished(run)
                  ELSE IF ~online THEN EntrySkipped(run)
                  ELSE EntryDone(run, run.order[run.pos], outcome)
        /\ UNCHANGED <<tb, nvars, bp, lvars, tr, hvars, cvars, wvars, evars, gvars, pvars,
                       tvars>>

\* cancel() from the main thread while the thread runs
RunCancel ==
    /\ run.pc = "running"
    /\ ~run.is_cancelled
    /\ run' = [run EXCEPT !.is_cancelled = TRUE, !.was_cancelled = TRUE]
    /\ UNCHANGED <<tb, nvars, bp, lvars, tr, hvars, cvars, wvars, evars, gvars, pvars, tvars>>


-----------------------------------------------------------------------------
(* BaseTranslator.translate_batch_optimized: the groups of similar texts,  *)
(* one request per group, the results.                                     *)

MaxBatch == 3
SimilarCap == 5

HelloBang == <<"h", "e", "l", "l", "o", " ", "w", "o", "r", "l", "d", "!">>

\* the lists a caller passes: short lists of three texts, two of which differ
\* in punctuation only, and a list of one text more than a group may hold
OptimizedInputs ==
    UNION { [1..n -> {Hello, HelloBang, Unrelated}] : n \in 0..MaxBatch }
    \cup { Rep(Hello, SimilarCap + 1) }

\* re.sub(r'[^\w\s]', '', text.lower())
WithoutPunctuation(text) == SelectSeq(Lower(text), KeepWordOrSpace)

\* _calculate_similarity(text1, text2) > 0.8
HighlySimilar(text1, text2) ==
    LET similarity == calculate_similarity(WithoutPunctuation(text1),
                                           WithoutPunctuation(text2))
    IN similarity.num * 10 > 8 * similarity.den

RECURSIVE ScanSimilar(_, _, _, _, _)
RECURSIVE ScanNext(_, _, _, _, _)
\* after the test of position j: break at the cap, or the next position
ScanNext(list, i, j, group, claimed) ==
    IF Len(group) >= SimilarCap THEN group
    ELSE ScanSimilar(list, i, j + 1, group, claimed)

\* the inner loop of _group_similar_texts from position j on (1-based)
ScanSimilar(list, i, j, group, claimed) ==
    IF j > Len(list) THEN group
    ELSE IF j \in claimed THEN ScanSimilar(list, i, j + 1, group, claimed)
    ELSE ScanNext(list, i, j,
                  IF HighlySimilar(list[i], list[j]) THEN Append(group, j) ELSE group,
                  claimed)

RECURSIVE GroupsFrom(_, _, _)
RECURSIVE GroupsAfter(_, _, _, _)
\* groups.append(current_group), then the outer loop from i + 1 on
GroupsAfter(list, i, group, claimed) ==
    <<group>> \o GroupsFrom(list, i + 1, claimed \cup { group[m] : m \in 1..Len(group) })

\* the outer loop of _group_similar_texts from position i on: the groups as
\* lists of positions
GroupsFrom(list, i, claimed) ==
    IF i > Len(list) THEN <<>>
    ELSE IF i \in claimed THEN GroupsFrom(list, i + 1, claimed)
    ELSE GroupsAfter(list, i, ScanSimilar(list, i, i + 1, <<i>>, claimed), claimed)

_group_similar_texts(list) == GroupsFrom(list, 1, {})

\* the translation of a text, as the service gives it
Translation(text) == <<ALEF>> \o text

\* translate(text): the translation, or the text when the request is declined
TranslateOne(text, ok) == IF ok THEN Translation(text) ELSE text

\* the combined request answered with count lines, line m being the
\* translation of the m-th text: translations are padded with the original
\* texts and cut to len(texts)
Combined(group_texts, count) ==
    [m \in 1..Len(group_texts) |->
        IF m <= count THEN Translation(group_texts[m]) ELSE group_texts[m]]

\* the texts of a group of positions
TextsOf(list, group) == [m \in 1..Len(group) |-> list[group[m]]]

NoBatch == [pc |-> "none", texts |-> <<>>, groups |-> <<>>, g |-> 1, results |-> <<>>]

OptimizedIdle == tb = NoBatch

\* translate_batch_optimized(texts): the call, up to the loop over the groups
TranslateBatchOptimized ==
    \E list \in OptimizedInputs :
        /\ tb.pc = "none"
        /\ tb' = IF list = <<>> THEN [NoBatch EXCEPT !.pc = "returned"]
                 ELSE [NoBatch EXCEPT !.pc = "groups", !.texts = list,
                                      !.groups = _group_similar_texts(list)]
        /\ UNCHANGED <<run, nvars, bp, lvars, tr, hvars, cvars, wvars, evars, gvars, pvars,
                       tvars>>

\* the results of one group: translate() for a single text; one combined
\* request for several, or translate() for each when that request raises
GroupResults(group_texts, raises, count, ok) ==
    IF Len(group_texts) = 1 THEN <<TranslateOne(group_texts[1], ok[1])>>
    ELSE IF raises
         THEN [m \in 1..Len(group_texts) |-> TranslateOne(group_texts[m], ok[m])]
         ELSE Combined(group_texts, count)

\* one pass of the loop over the groups, or the return
TranslateGroup ==
    \E raises \in BOOLEAN, count \in 0..(SimilarCap + 1), ok \in [1..SimilarCap -> BOOLEAN] :
        /\ tb.pc = "groups"
        /\ tb' = IF tb.g > Len(tb.groups) THEN [tb EXCEPT !.pc = "returned"]
                 ELSE [tb EXCEPT !.g = @ + 1,
                                 !.results = @ \o GroupResults(TextsOf(tb.texts, tb.groups[tb.g]),
                                                               raises, count, ok)]
        /\ UNCHANGED <<run, nvars, bp, lvars, tr, hvars, cvars, wvars, evars, gvars, pvars,
                       tvars>>


\* what the variables of the validation and of the batch operations hold
\* while these rest
LaterIdle == ValidateIdle /\ BatchIdle /\ RunIdle /\ OptimizedIdle

RestIdle == ClassifyIdle /\ TranslateIdle /\ LaterIdle


Init ==
    /\ HandlerInit
    /\ CacheStart([kind |-> "missing", data |-> EmptyMap])
    /\ WorkersStart
    /\ ExtractIdle
    /\ GroupIdle
    /\ ProgressIdle
    /\ ThreadIdle
    /\ RestIdle

Next ==
    \/ LoadFile
    \/ UpdateTranslation
    \/ BuildNewContent
    \/ SaveFile
    \/ ImportProjectData

Spec == Init /\ [][Next]_vars

\* the cache alone, from every file the process may find at start-up
InitCache ==
    /\ HandlerInit
    /\ \E f \in StartFiles : CacheStart(f)
    /\ WorkersStart
    /\ ExtractIdle
    /\ GroupIdle
    /\ ProgressIdle
    /\ ThreadIdle
    /\ RestIdle

NextCache ==
    \/ CacheGet
    \/ CacheSet
    \/ ClearCache
    \/ SaveCache

SpecCache == InitCache /\ [][NextCache]_vars

\* the cache under concurrently running workers
NextWorkers ==
    \/ \E w \in Workers : WorkerGet(w)
    \/ \E w \in Workers : SetStore(w)
    \/ \E w \in Workers : SetCheck(w)
    \/ \E w \in Workers : SaveOpen(w)
    \/ \E w \in Workers : DumpBegin(w)
    \/ \E w \in Workers : DumpEnd(w)

SpecWorkers == InitCache /\ [][NextWorkers]_vars

\* the extractor alone, on every document
InitExtract ==
    /\ HandlerInit
    /\ CacheStart([kind |-> "missing", data |-> EmptyMap])
    /\ WorkersStart
    /\ source \in Documents
    /\ ex_call = "none"
    /\ ex_items = <<>>
    /\ raw = <<>>
    /\ GroupIdle
    /\ ProgressIdle
    /\ ThreadIdle
    /\ RestIdle

NextExtract ==
    \/ LoadExtract
    \/ ExtractStandard
    \/ ExtractOptimized

SpecExtract == InitExtract /\ [][NextExtract]_vars

\* smart_text_grouping alone, on every input
InitGroup ==
    /\ HandlerInit
    /\ CacheStart([kind |-> "missing", data |-> EmptyMap])
    /\ WorkersStart
    /\ ExtractIdle
    /\ texts \in GroupInputs
    /\ similarity_threshold \in Thresholds
    /\ g_groups = <<>>
    /\ processed = {}
    /\ current_group = <<>>
    /\ g_i = 0
    /\ g_j = 0
    /\ g_pc = "outer"
    /\ index_groups = <<>>
    /\ ProgressIdle
    /\ ThreadIdle
    /\ RestIdle

NextGroup ==
    \/ Seed
    \/ Scan
    \/ CloseGroup
    \/ ReturnGroups

SpecGroup == InitGroup /\ [][NextGroup]_vars

\* a translation run over a loaded file, the progress asked at any point
InitProgress ==
    \E count \in ItemCounts :
        /\ file_path = "many.php"
        /\ original_content = ManyPairs(count)
        /\ translations = _extract_translations(original_content)
        /\ modified = FALSE
        /\ encoding = "utf-8"
        /\ call = [op |-> "load", index |-> 0]
        /\ ret = "True"
        /\ extracted = translations
        /\ imported = FALSE
        /\ build_log = <<>>
        /\ CacheStart([kind |-> "missing", data |-> EmptyMap])
        /\ WorkersStart
        /\ ExtractIdle
        /\ GroupIdle
        /\ ProgressIdle
        /\ ThreadIdle
        /\ RestIdle

NextProgress ==
    \/ TranslateNext
    \/ GetProgress

SpecProgress == InitProgress /\ [][NextProgress]_vars

\* a translation run over the rows of a loaded file, just started
InitCancel ==
    \E count \in {1, 2} :
        /\ file_path = "many.php"
        /\ original_content = ManyPairs(count)
        /\ translations = _extract_translations(original_content)
        /\ modified = FALSE
        /\ encoding = "utf-8"
        /\ call = [op |-> "load", index |-> 0]
        /\ ret = "True"
        /\ extracted = translations
        /\ imported = FALSE
        /\ build_log = <<>>
        /\ CacheStart([kind |-> "missing", data |-> EmptyMap])
        /\ WorkersStart
        /\ ExtractIdle
        /\ GroupIdle
        /\ ProgressIdle
        /\ is_cancelled = FALSE
        /\ t_pc = "check"
        /\ t_next = 1
        /\ event_queue = <<>>
        /\ m_pc = "loop"
        /\ stopped = FALSE
        /\ at_cancel = <<>>
        /\ emits \in ThreadTags
        /\ RestIdle

InitClassify ==
    /\ HandlerInit
    /\ CacheStart([kind |-> "missing", data |-> EmptyMap])
    /\ WorkersStart
    /\ ExtractIdle
    /\ GroupIdle
    /\ ProgressIdle
    /\ ThreadIdle
    /\ c_text \in ClassTexts
    /\ c_result = NotClassified
    /\ TranslateIdle
    /\ LaterIdle

NextClassify == Classify

SpecClassify == InitClassify /\ [][NextClassify]_vars

\* the handler with project files that drifted from the source
NextRewrite ==
    \/ LoadFile
    \/ UpdateTranslation
    \/ ImportDrifted
    \/ BuildNewContent

SpecRewrite == Init /\ [][NextRewrite]_vars

InitValidate ==
    /\ HandlerInit
    /\ CacheStart([kind |-> "missing", data |-> EmptyMap])
    /\ WorkersStart
    /\ ExtractIdle
    /\ GroupIdle
    /\ ProgressIdle
    /\ ThreadIdle
    /\ ClassifyIdle
    /\ TranslateIdle
    /\ v_item \in [original_value : TokenTexts(MaxTokens),
                    translated_value : TokenTexts(MaxTokens),
                    needs_translation : BOOLEAN]
    /\ v_issues = NotValidated
    /\ BatchIdle
    /\ RunIdle
    /\ OptimizedIdle

NextValidate == ValidateTranslations

SpecValidate == InitValidate /\ [][NextValidate]_vars

InitBatch ==
    /\ HandlerInit
    /\ CacheStart([kind |-> "missing", data |-> EmptyMap])
    /\ WorkersStart
    /\ ExtractIdle
    /\ GroupIdle
    /\ ProgressIdle
    /\ ThreadIdle
    /\ ClassifyIdle
    /\ TranslateIdle
    /\ ValidateIdle
    /\ \E batch_size \in {1, 2} : bp = NewProcessor(batch_size)
    /\ RunIdle
    /\ OptimizedIdle

NextBatch == ProcessInBatches \/ ProcessBatch

SpecBatch == InitBatch /\ [][NextBatch]_vars

\* a thread started on a queue
InitRun ==
    /\ HandlerInit
    /\ CacheStart([kind |-> "missing", data |-> EmptyMap])
    /\ WorkersStart
    /\ ExtractIdle
    /\ GroupIdle
    /\ ProgressIdle
    /\ ThreadIdle
    /\ ClassifyIdle
    /\ TranslateIdle
    /\ ValidateIdle
    /\ BatchIdle
    /\ \E kind \in ThreadTags : \E queue \in Queues(kind) :
          run = [NoRun EXCEPT !.kind = kind, !.pc = "running", !.queue = queue,
                              !.order = RunOrder(queue, kind)]
    /\ OptimizedIdle

NextRun == RunStep \/ RunCancel

SpecRun == InitRun /\ [][NextRun]_vars

InitOptimized ==
    /\ HandlerInit
    /\ CacheStart([kind |-> "missing", data |-> EmptyMap])
    /\ WorkersStart
    /\ ExtractIdle
    /\ GroupIdle
    /\ ProgressIdle
    /\ ThreadIdle
    /\ RestIdle

NextOptimized == TranslateBatchOptimized \/ TranslateGroup

SpecOptimized == InitOptimized /\ [][NextOptimized]_vars

InitTranslate ==
    \E f \in StartFiles :
        /\ HandlerInit
        /\ CacheStart(f)
        /\ WorkersStart
        /\ ExtractIdle
        /\ GroupIdle
        /\ ProgressIdle
        /\ ThreadIdle
        /\ RestIdle

NextTranslate == TranslateCall \/ TranslateAttempt

SpecTranslate == InitTranslate /\ [][NextTranslate]_vars

NextCancel ==
    \/ ThreadCheck
    \/ ThreadTranslate
    \/ OnTranslationCompleted
    \/ StopTranslation
    \/ StopReturns

SpecCancel == InitCancel /\ [][NextCancel]_vars

-----------------------------------------------------------------------------
(* Properties of the item store and the rewriter.                          *)

LastBuilt == build_log[Len(build_log)]
Untouched == \A i \in 1..Len(translations) :
                translations[i].translated_value = translations[i].original_value

\* C1: round trip.  Building the content while every item's translated_value
\* still equals its original_value yields the loaded source text, character for
\* character (hence line for line).
C1_RoundTrip ==
    (call.op \in {"build", "save"} /\ Untouched) => LastBuilt = original_content

\* a multi-line source with items was loaded and rebuilt untouched
C1_Witness ==
    /\ call.op = "build"
    /\ Len(translations) >= 1
    /\ Untouched
    /\ Len(SplitLines(original_content)) >= 3
    /\ LastBuilt = original_content

\* C2: rebuild is deterministic and idempotent.  Two builds (direct or through
\* save_file) with no change of the item store in between produce the same text:
\* the second does not start from the lines the first rewrote.
C2_Idempotent ==
    Len(build_log) = 2 => build_log[1] = build_log[2]

\* a save that rewrote a line was followed by another with the same result
C2_Witness ==
    /\ Len(build_log) = 2
    /\ call.op = "save"
    /\ ret = "True"
    /\ build_log[2] # original_content
    /\ build_log[2] # RAISE
    /\ build_log[1] = build_log[2]

\* the match of the source line that produced an item
SourceLine(item) == SplitLines(original_content)[item.line_number]
ItemMatch(item) ==
    LET ms == FindPairs(SourceLine(item), 1, item.pattern_used, StandardLimits)
    IN ms[CHOOSE k \in 1..Len(ms) :
              _clean_extracted_text(Slice(SourceLine(item), ms[k].ks, ms[k].ke)) = item.key]

\* the rebuilt text differs from the source only inside the value literal of item
OnlyValueChanged(built, item) ==
    LET old == SplitLines(original_content)
        new == SplitLines(built)
        m == ItemMatch(item)
        line == old[item.line_number]
        tail == Len(line) - m.ve
    IN /\ built # RAISE
       /\ Len(new) = Len(old)
       /\ \A l \in 1..Len(old) : l # item.line_number => new[l] = old[l]
       /\ Len(new[item.line_number]) >= m.vs - 1 + tail
       /\ Slice(new[item.line_number], 1, m.vs - 1) = Slice(line, 1, m.vs - 1)
       /\ Slice(new[item.line_number], Len(new[item.line_number]) - tail + 1,
                Len(new[item.line_number])) = Slice(line, m.ve + 1, Len(line))

\* C3 (as claimed): when exactly one extracted item carries a target-script
\* translation, the rebuilt text differs from the source only in that item's
\* value literal: same number of lines, other lines identical, the text before
\* the literal (the key) and after it unchanged.
C3_RewriteOnlyValue ==
    \A i \in 1..Len(translations) :
        ( /\ call.op \in {"build", "save"}
          /\ ~imported
          /\ has_arabic_content(translations[i].translated_value)
          /\ \A j \in 1..Len(translations) :
                j # i => translations[j].translated_value = translations[j].original_value )
        => OnlyValueChanged(LastBuilt, translations[i])

\* C4: update_translation returns False for an index below 0 or not below the
\* number of items and then leaves items and modified as they were; it returns
\* True for every index in range.
C4_UpdateRange ==
    [][ call'.op = "update" =>
          IF 0 <= call'.index /\ call'.index < Len(translations)
          THEN ret' = "True"
          ELSE ret' = "False" /\ translations' = translations /\ modified' = modified
      ]_vars

\* an out-of-range update was refused on a store that holds an unsaved edit
C4_Witness ==
    /\ call.op = "update"
    /\ call.index < 0
    /\ ret = "False"
    /\ Len(translations) >= 2
    /\ modified

ExtractionFields(item) ==
    <<item.original_value, item.line_number, item.key, item.needs_translation,
      item.pattern_used>>

\* C5: after a load, update_translation and save_file (and building) keep the
\* number of items and each item's original_value, line_number, key,
\* needs_translation and pattern_used as extraction set them, and an update
\* changes no item but the addressed one.
C5_ExtractionFrozen ==
    /\ [](~imported =>
            /\ Len(translations) = Len(extracted)
            /\ \A i \in 1..Len(translations) :
                  ExtractionFields(translations[i]) = ExtractionFields(extracted[i]))
    /\ [][ call'.op \in {"update", "save", "build"} =>
             /\ Len(translations') = Len(translations)
             /\ \A i \in 1..Len(translations) :
                   (call'.op # "update" \/ i # call'.index + 1)
                       => translations'[i] = translations[i]
         ]_vars

\* an edit was made and saved after a load
C5_Witness ==
    /\ ~imported
    /\ call.op = "save"
    /\ ret = "True"
    /\ \E i \in 1..Len(translations) :
          /\ translations[i].translated_value # extracted[i].translated_value
          /\ translations[i].translation_type = "auto"

\* C6 (as claimed): every item's is_translated flag equals the majority-script
\* test of its current translated_value.
C6_FlagCurrent ==
    \A i \in 1..Len(translations) :
        translations[i].is_translated = has_arabic_content(translations[i].translated_value)


-----------------------------------------------------------------------------
(* Properties of the translation cache.                                    *)

CallKey == clean_text_for_cache(cache_call.text)
Found(value) == [kind |-> "value", value |-> value]

\* C7 (as claimed): after set(t, v), get(t') returns v for every t' whose
\* normalization equals that of t, and a set leaves the other keys as they
\* were; get returns the stored value or the absent value, changes nothing,
\* and neither get nor set raises.
C7_CacheRoundTrip ==
    /\ [](cache_call.op \in {"get", "set"} => cache_ret.kind # "raise")
    /\ [][ /\ cache_call'.op = "set" =>
                /\ \A t \in CacheTexts :
                      clean_text_for_cache(t) = CallKey'
                          => Lookup(cache', clean_text_for_cache(t))
                                 = Found(cache_call'.value)
                /\ \A k \in (DOMAIN cache.map) \ {CallKey'} :
                      k \in DOMAIN cache'.map /\ cache'.map[k] = cache.map[k]
           /\ cache_call'.op = "get" =>
                /\ cache' = cache
                /\ cache_ret' = IF CallKey' \in DOMAIN cache.map
                                THEN Found(cache.map[CallKey'])
                                ELSE NoValue
         ]_vars

\* C8 (as claimed): a set call runs save_cache exactly when it inserts a new
\* key and the number of insertions since the process started reaches a
\* multiple of 10.
C8_FlushEveryTenth ==
    [][ cache_call'.op = "set" =>
            (flushed' <=> (insertions' > insertions /\ insertions' % FlushEvery = 0))
      ]_vars

EmptyCache == [type |-> "dict", map |-> EmptyMap]

\* C9 (as claimed): a cache file that is missing, unreadable or not a stored
\* cache mapping leaves the cache an empty mapping after construction, and a
\* set whose save_cache fails returns normally with the map as the set made it.
C9_CorruptFileDegrades ==
    /\ [](start_file.kind # "dict" => loaded = EmptyCache)
    /\ [][ (cache_call'.op = "set" /\ flushed' /\ cache_file' # Dumped(cache')) =>
               /\ cache_ret'.kind # "raise"
               /\ cache'.map = Store(cache.map, CallKey', cache_call'.value)
         ]_vars

EntryWasSet(k, v) ==
    \/ <<k, v>> \in set_entries
    \/ k \in DOMAIN loaded.map /\ loaded.map[k] = v

\* C10 (as claimed): with set calls of concurrent workers interleaved, the key
\* of every completed set is in the in-memory map, no step removes a key, and
\* a flush that finishes leaves the file a mapping made only of entries that
\* were set (or loaded at start-up).
C10_InterleavingSafe ==
    /\ [](completed \subseteq DOMAIN cache.map)
    /\ [][ /\ DOMAIN cache.map \subseteq DOMAIN cache'.map
           /\ \A w \in Workers :
                 (workers[w].pc = "iterate" /\ workers'[w].pc = "idle") =>
                     /\ cache_file'.kind = "dict"
                     /\ \A k \in DOMAIN cache_file'.data :
                           EntryWasSet(k, cache_file'.data[k])
         ]_vars


-----------------------------------------------------------------------------
(* Properties of loading and extraction.                                   *)

\* C11 (as claimed): a load that fails raises and leaves file_path,
\* original_content, encoding, translations and modified as they were before
\* the call.
C11_FailedLoadKeepsState ==
    [][ (call'.op = "load" /\ ret' = "raise") =>
            /\ file_path' = file_path
            /\ original_content' = original_content
            /\ encoding' = encoding
            /\ translations' = translations
            /\ modified' = modified
      ]_vars


RECURSIVE LineAt(_, _)
\* the text of the k-th line (1-based) of a document; RAISE past its end
LineAt(doc, k) ==
    IF doc = <<>> \/ k < 1 THEN RAISE
    ELSE IF k <= Head(doc).n THEN Head(doc).text
    ELSE LineAt(Tail(doc), k - Head(doc).n)

ChunkedCall == ex_call = "optimized" \/ (ex_call = "load" /\ IsLarge(source))
StandardCall == ex_call = "standard" \/ (ex_call = "load" /\ ~IsLarge(source))
ModeLimits == IF ChunkedCall THEN OptimizedLimits ELSE StandardLimits

\* the pair of the item is a match of the item's pattern on the line
MatchedOn(item, line) ==
    \E m \in { FindPairs(line, 1, item.pattern_used, ModeLimits)[x] :
                 x \in 1..Len(FindPairs(line, 1, item.pattern_used, ModeLimits)) } :
        /\ item.key = _clean_extracted_text(Slice(line, m.ks, m.ke))
        /\ item.original_value = _clean_extracted_text(Slice(line, m.vs, m.ve))

FifthLine == <<[n |-> 4, text |-> <<>>], [n |-> 1, text |-> PairLine(0, Greeting, HelloWorld)]>>

\* C12: in both modes every item's line_number is the 1-based index of the source line its pair was matched on (also in later chunks and after skipped lines), and 'greeting' => 'hello world' on line 5 yields exactly one item, with line_number 5.
C12_LineNumbering ==
    /\ \A i \in 1..Len(ex_items) :
          \E line \in {LineAt(source, ex_items[i].line_number)} :
              /\ line # RAISE
              /\ MatchedOn(ex_items[i], line)
              /\ ex_items[i].original_line
                    = Slice(Strip(line), 1, Len(ex_items[i].original_line))
    /\ (source = FifthLine /\ ex_call # "none") =>
          /\ Len(ex_items) = 1
          /\ ex_items[1].line_number = 5
          /\ ex_items[1].key = Greeting
          /\ ex_items[1].original_value = HelloWorld
          /\ ex_items[1].needs_translation

\* a large file loaded in chunks, with an item in the eleventh chunk
C12_Witness ==
    /\ ex_call = "load"
    /\ IsLarge(source)
    /\ \E i \in 1..Len(ex_items) : ex_items[i].line_number > 10 * chunk_size

\* the number of items the mode of the call makes of one line
ItemsOfLine(line) ==
    IF line = RAISE THEN 0
    ELSE IF ChunkedCall THEN Len(ChunkLineItems(1, line))
    ELSE Len(LineItems(1, line, StandardLimits))

\* C13 (as claimed): no two items of one extraction pass carry the same line_number.
C13_UniqueLineNumbers ==
    ex_call = "load" =>
        \A i, j \in 1..Len(ex_items) :
            i # j => ex_items[i].line_number # ex_items[j].line_number

\* C13 (amended): two items of one extraction pass carry the same line_number only when the source line of that number yields more than one item (several pairs on the line, or a match by more than one pattern); items of different lines never share a number.
C13_UniquePerLine ==
    \A i, j \in 1..Len(ex_items) :
        (i # j /\ ex_items[i].line_number = ex_items[j].line_number)
            => ItemsOfLine(LineAt(source, ex_items[i].line_number)) >= 2

\* a load whose items share a line number
C13_Witness ==
    /\ ex_call = "load"
    /\ \E i, j \in 1..Len(ex_items) :
          i # j /\ ex_items[i].line_number = ex_items[j].line_number

\* the matches of pattern p on a line, as a set
MatchSet(line, p, lim) ==
    { FindPairs(line, 1, p, lim)[x] : x \in 1..Len(FindPairs(line, 1, p, lim)) }

\* the candidate pairs of one line: every match of every pattern, cleaned
LineCandidates(line_number, line, lim) ==
    UNION { { [line_number |-> line_number,
               key |-> _clean_extracted_text(Slice(line, m.ks, m.ke)),
               original_value |-> _clean_extracted_text(Slice(line, m.vs, m.ve)),
               pattern_used |-> p] : m \in MatchSet(line, p, lim) }
            : p \in PatternIndexes }

\* the candidate pairs of the source in the mode of the call
Candidates ==
    UNION { IF SkippedLine(Numbered(source, 0)[x].text)
               \/ (ChunkedCall /\ Len(Numbered(source, 0)[x].text) > MaxLineLen)
            THEN {}
            ELSE LineCandidates(Numbered(source, 0)[x].index + 1,
                                Numbered(source, 0)[x].text, ModeLimits)
            : x \in 1..Len(Numbered(source, 0)) }

\* the items of a list, identified by line, key, value and pattern
Identified(list) ==
    { [line_number |-> list[i].line_number, key |-> list[i].key,
       original_value |-> list[i].original_value,
       pattern_used |-> list[i].pattern_used] : i \in 1..Len(list) }

\* made up solely of programming-symbol characters
SolelySymbols(s) == s # <<>> /\ \A i \in 1..Len(s) : s[i] \in ProgrammingSymbols
WithoutFinalNewline(s) ==
    IF s # <<>> /\ s[Len(s)] = NL THEN Slice(s, 1, Len(s) - 1) ELSE s

FourConditionsKey(key, value) ==
    /\ key # <<>> /\ value # <<>>
    /\ Len(key) <= 100
    /\ Len(value) <= 500
    /\ ~SolelySymbols(key)

FourConditionsValue(key, value) ==
    /\ key # <<>> /\ value # <<>>
    /\ Len(key) <= 100
    /\ Len(value) <= 500
    /\ ~SolelySymbols(WithoutFinalNewline(value))

\* C14 (as claimed): a candidate pair is kept by extraction iff key and value are non-empty after cleaning, the key has at most 100 and the value at most 500 characters, and the key is not solely programming symbols; every item stored by a load satisfies the four conditions.
C14_KeptIffValidKey ==
    ex_call = "load" =>
        /\ \A c \in Candidates :
              c \in Identified(ex_items) <=> FourConditionsKey(c.key, c.original_value)
        /\ \A i \in 1..Len(ex_items) :
              FourConditionsKey(ex_items[i].key, ex_items[i].original_value)

\* C14 (amended): a candidate pair passes the validity filter of extraction (before the deduplication of large-file mode) iff key and value are non-empty after cleaning, the key has at most 100 and the value at most 500 characters, and the value, one final newline apart, is not solely programming symbols; every item stored satisfies the four conditions.
C14_KeptIffValidValue ==
    ex_call # "none" =>
        /\ \A c \in Candidates :
              c \in Identified(raw) <=> FourConditionsValue(c.key, c.original_value)
        /\ \A i \in 1..Len(ex_items) :
              FourConditionsValue(ex_items[i].key, ex_items[i].original_value)

\* a load that keeps a pair whose key is solely programming symbols
C14_Witness ==
    /\ ex_call = "load"
    /\ \E i \in 1..Len(ex_items) : SolelySymbols(ex_items[i].key)

\* (key.lower(), original_value.lower()) as the claim writes it
LowerPair(item) == <<Lower(item.key), Lower(item.original_value)>>

\* the positions of the undeduplicated list that hold the first occurrence of a pair
FirstOccurrences ==
    { k \in 1..Len(raw) : \A h \in 1..(k - 1) : LowerPair(raw[h]) # LowerPair(raw[k]) }

\* C15: the result of chunked extraction holds no two items with the same (key.lower(), original_value.lower()), is the undeduplicated list restricted, in order, to the first occurrence of each pair, and the item kept has the lowest line number of its pair.
C15_Deduplicated ==
    ChunkedCall =>
        /\ \A i, j \in 1..Len(ex_items) :
              i # j => LowerPair(ex_items[i]) # LowerPair(ex_items[j])
        /\ Len(ex_items) = Cardinality(FirstOccurrences)
        /\ \A k \in FirstOccurrences :
              ex_items[Cardinality({h \in FirstOccurrences : h <= k})] = raw[k]
        /\ \A i \in 1..Len(ex_items) : \A k \in 1..Len(raw) :
              LowerPair(raw[k]) = LowerPair(ex_items[i])
                  => ex_items[i].line_number <= raw[k].line_number

\* a large file loaded with a pair repeated in other letters, the repetition dropped
C15_Witness ==
    /\ ex_call = "load"
    /\ IsLarge(source)
    /\ Len(ex_items) < Len(raw)
    /\ \E h, k \in 1..Len(raw) :
          /\ h < k
          /\ raw[h].key # raw[k].key
          /\ LowerPair(raw[h]) = LowerPair(raw[k])

\* standard-mode extraction of the source of the call
StandardOfSource == StandardLines(Numbered(source, 0))

\* C16 (as claimed): every item of chunked extraction, identified by line_number, key, original_value and pattern_used, is an item of standard extraction of the same source; and every standard item with a key of 2..100 characters, a value of at most 200, a line of at most 1000 and the first occurrence of its case-insensitive pair is in the chunked result.
C16_Parity ==
    ChunkedCall =>
        /\ Identified(ex_items) \subseteq Identified(StandardOfSource)
        /\ \A k \in 1..Len(StandardOfSource) :
              \E item \in {StandardOfSource[k]} :
                  ( /\ Len(item.key) >= 2 /\ Len(item.key) <= 100
                    /\ Len(item.original_value) <= 200
                    /\ Len(LineAt(source, item.line_number)) <= 1000
                    /\ \A h \in 1..(k - 1) :
                          LowerPair(StandardOfSource[h]) # LowerPair(item) )
                  => \E i \in 1..Len(ex_items) :
                        /\ ex_items[i].line_number = item.line_number
                        /\ ex_items[i].key = item.key
                        /\ ex_items[i].original_value = item.original_value
                        /\ ex_items[i].pattern_used = item.pattern_used

(* Properties of smart_text_grouping. *)

\* the positions held by a group
Members(g) == { index_groups[g][m] : m \in 1..Len(index_groups[g]) }
SeedOf(g) == index_groups[g][1]
ClaimedBefore(g) == UNION { Members(h) : h \in 1..(g - 1) }

\* Jaccard similarity of the lower-case word sets of texts a and b is >= num/den
JaccardAtLeast(a, b, threshold) ==
    /\ WordSet(a) # {}
    /\ WordSet(b) # {}
    /\ Cardinality(WordSet(a) \cap WordSet(b)) * threshold.den
          >= threshold.num * Cardinality(WordSet(a) \cup WordSet(b))

\* position k matches the seed of group g
MatchesSeed(g, k) ==
    IF similarity_threshold.num = 0 THEN TRUE
    ELSE JaccardAtLeast(texts[SeedOf(g) + 1], texts[k + 1], similarity_threshold)

\* C17: every group has at most 10 members; a group that has reached 10 members is never added to; and a text that matches the seed of a capped group but comes after its tenth member is placed in a later group.
C17_GroupCap ==
    /\ [](/\ Len(current_group) <= 10
          /\ \A g \in 1..Len(g_groups) : Len(g_groups[g]) <= 10
          /\ \A g \in 1..Len(index_groups) : Len(index_groups[g]) <= 10)
    /\ [][ /\ \A g \in 1..Len(index_groups) :
                Len(index_groups[g]) >= 10 => index_groups'[g] = index_groups[g]
           /\ \A g \in 1..Len(g_groups) : g_groups'[g] = g_groups[g] ]_vars
    /\ [](g_pc = "done" =>
            \A g \in 1..Len(index_groups) : \A k \in 0..(Len(texts) - 1) :
                ( /\ Len(index_groups[g]) = 10
                  /\ k > index_groups[g][10]
                  /\ k \notin ClaimedBefore(g)
                  /\ MatchesSeed(g, k) )
                => \E h \in (g + 1)..Len(index_groups) : k \in Members(h))

\* the grouping has returned; a group is capped and a later text that matches its seed is in a later group
C17_Witness ==
    /\ g_pc = "done"
    /\ \E g \in 1..Len(index_groups) : \E k \in 0..(Len(texts) - 1) :
          /\ Len(g_groups[g]) = 10
          /\ k > index_groups[g][10]
          /\ MatchesSeed(g, k)
          /\ \E h \in (g + 1)..Len(index_groups) : k \in Members(h)

\* C18: a text is a non-seed member of a group exactly when it comes after the seed, is claimed by no earlier group, the group holds fewer than 10 members when the text is reached, and its Jaccard similarity with the seed is at least the threshold; a text that no earlier seed claims seeds its own group; with threshold 0.5 'hello world' and 'hello world test' share a group and 'totally unrelated phrase' is alone.
C18_Membership ==
    g_pc = "done" =>
        /\ \A k \in 0..(Len(texts) - 1) : \E g \in 1..Len(index_groups) : k \in Members(g)
        /\ \A g \in 1..Len(index_groups) :
              /\ Len(g_groups[g]) = Len(index_groups[g])
              /\ \A m \in 1..Len(index_groups[g]) :
                    g_groups[g][m] = texts[index_groups[g][m] + 1]
              /\ SeedOf(g) \notin ClaimedBefore(g)
              /\ \A k \in 0..(Len(texts) - 1) :
                    (k \in Members(g) /\ k # SeedOf(g))
                    <=> ( /\ k > SeedOf(g)
                          /\ k \notin ClaimedBefore(g)
                          /\ Cardinality({m \in Members(g) : m < k}) < 10
                          /\ MatchesSeed(g, k) )
        /\ (texts = <<Hello, HelloTest, Unrelated>>
              /\ similarity_threshold = [num |-> 1, den |-> 2])
           => g_groups = << <<Hello, HelloTest>>, <<Unrelated>> >>

\* the grouping has returned; a text that resembles a member of an earlier group, but not its seed, is outside that group
C18_Witness ==
    /\ g_pc = "done"
    /\ \E g \in 1..Len(index_groups) : \E k \in 0..(Len(texts) - 1) :
          /\ k \notin Members(g)
          /\ k \notin ClaimedBefore(g)
          /\ \E m \in Members(g) :
                /\ m < k
                /\ JaccardAtLeast(texts[m + 1], texts[k + 1], similarity_threshold)
          /\ Len(index_groups[g]) < 10

(* Properties of get_translation_progress. *)

NeedCount == Cardinality({i \in 1..Len(translations) : translations[i].needs_translation})
DoneCount ==
    Cardinality({i \in 1..Len(translations) :
                    /\ translations[i].needs_translation
                    /\ has_arabic_content(translations[i].translated_value)})

\* C19 (as claimed): get_translation_progress returns 100 when no item needs translation and otherwise translated / needs_translation * 100 truncated to an integer; the result is within 0..100 and is 100 only when every item that needs translation is translated.
C19_Progress ==
    call.op = "progress" =>
        /\ NeedCount = 0 => progress = 100
        /\ NeedCount > 0 => progress = (DoneCount * 100) \div NeedCount
        /\ progress \in 0..100
        /\ progress = 100 => DoneCount = NeedCount

\* C20: once cancel() has been called on a running translation thread and
\* stop_translation() has returned, no further translation_completed event is
\* emitted or applied to the item store, and every update applied before the
\* cancel keeps its value.
C20_CancelStops ==
    /\ [][(is_cancelled /\ stopped) =>
            /\ Len(event_queue') <= Len(event_queue)
            /\ translations' = translations]_vars
    /\ [](is_cancelled =>
            \A i \in 1..Len(at_cancel) :
                at_cancel[i] # extracted[i] => translations[i] = at_cancel[i])

-----------------------------------------------------------------------------
(* The claims on the classifier, the translator, the rewrite guard, the    *)
(* validation, the provenance tag and the batch operations.                *)

\* C21: a text that passes the majority-script test (more than half of its
\* Latin-or-Arabic letters are Arabic) is never classified as needing
\* translation, and no item is extracted with is_translated and
\* needs_translation both true.
C21_TranslatedNotNeeding ==
    c_result.done =>
        /\ has_arabic_content(c_text) => ~c_result.needs_translation
        /\ \A i \in 1..Len(c_result.items) :
              ~(c_result.items[i].is_translated /\ c_result.items[i].needs_translation)

\* a text with Arabic and Latin letters, Arabic in the majority, was classified
\* and extracted as an item that is_translated
C21_Witness ==
    /\ c_result.done
    /\ c_result.is_translated
    /\ \E i \in 1..Len(c_text) : IsLatin(c_text[i])
    /\ Len(c_result.items) = 1
    /\ c_result.items[1].is_translated

\* the requests a call of translate() has made
Requests(log) == SelectSeq(log, LAMBDA e : e # "set")

\* C22: BaseTranslator.translate never raises to its caller; it makes at most
\* 3 request attempts, none after an authorization-type error; when no attempt
\* succeeds it returns the original input text unchanged; the cache is written
\* only after a successful request.
C22_TranslateNeverRaises ==
    /\ tr.pc # "raised"
    /\ Len(Requests(tr.log)) <= 3
    /\ \A i \in 1..Len(tr.log) : tr.log[i] = "authorization" => i = Len(tr.log)
    /\ (tr.pc = "returned" /\ tr.log # <<>> /\ \A i \in 1..Len(tr.log) : tr.log[i] # "ok")
           => tr.ret = tr.text
    /\ \A i \in 1..Len(tr.log) : tr.log[i] = "set" => (i > 1 /\ tr.log[i - 1] = "ok")

\* the items in the order in which the rewriter goes through them
Sorted == SortedByLineDesc(translations)

\* the lines after the rewriter has gone through the first k items
LinesAfter(k) == ApplyTranslations(SplitLines(original_content), SubSeq(Sorted, 1, k))

\* the item is one the claim says changes nothing: it fails the guard, or its
\* line_number is outside the lines, or its original_value is not on its line
Miss(item, lines) ==
    \/ item.translated_value = item.original_value
    \/ ~has_arabic_content(item.translated_value)
    \/ item.line_number \notin 1..Len(lines)
    \/ ~Contains(lines[item.line_number], item.original_value)

\* C23: the rewrite guard.  In a rebuild, an item whose translated_value equals
\* its original_value or fails the majority-script test, whose line_number is
\* outside the source's line range, or whose original_value does not occur on
\* its line changes no line and raises no error; a rebuild in which every item
\* is a miss returns the source text.
C23_RewriteGuard ==
    call.op = "build" =>
        /\ \A k \in 1..Len(Sorted) :
              (LinesAfter(k - 1) # <<RAISE>> /\ Miss(Sorted[k], LinesAfter(k - 1)))
                  => LinesAfter(k) = LinesAfter(k - 1)
        /\ (\A k \in 1..Len(Sorted) : Miss(Sorted[k], SplitLines(original_content)))
               => LastBuilt = original_content
        /\ LastBuilt = JoinOrRaise(LinesAfter(Len(Sorted)))

\* a rebuild went through an item with a line number past the last line, an
\* item whose original value is not on its line and an item that was rewritten
C23_Witness ==
    /\ call.op = "build"
    /\ imported
    /\ \E k \in 1..Len(Sorted) :
          /\ has_arabic_content(Sorted[k].translated_value)
          /\ Sorted[k].is_translated
          /\ Sorted[k].line_number = Len(SplitLines(original_content)) + 1
    /\ \E k \in 1..Len(Sorted) :
          /\ has_arabic_content(Sorted[k].translated_value)
          /\ Sorted[k].is_translated
          /\ Sorted[k].line_number \in 1..Len(SplitLines(original_content))
          /\ Sorted[k].original_value = Drifted
    /\ LastBuilt = original_content

\* the set of the HTML tags of a text
TagSet(s) == { TagsFrom(s, 1)[k] : k \in 1..Len(TagsFrom(s, 1)) }

\* C24: validate_translations reports html_mismatch for an item if and only if
\* the set of HTML tags of original_value differs from the set of HTML tags of
\* translated_value; order and multiplicity of the tags make no mismatch.
C24_HtmlMismatchBySet ==
    v_issues # NotValidated =>
        ((\E k \in 1..Len(v_issues) : v_issues[k] = "html_mismatch")
            <=> TagSet(v_item.original_value) # TagSet(v_item.translated_value))

\* the values the spec gives for translation_type
ProvenanceTags == {"none", "manual", "auto", "smart", "economy"}

\* C25: provenance is recorded as produced.  When a result of an automated run
\* is applied to an item, the item's translation_type becomes the tag the run
\* emitted with the result ('auto' from the batch thread, 'smart' from the smart
\* thread); translation_type always lies in {none, manual, auto, smart, economy}.
C25_ProvenanceAsEmitted ==
    /\ [][(event_queue # <<>> /\ event_queue' = Tail(event_queue)) =>
            translations'[Head(event_queue).index + 1].translation_type
                = Head(event_queue).tag]_vars
    /\ [](\A i \in 1..Len(translations) :
              translations[i].translation_type \in ProvenanceTags)

\* C26: process_in_batches returns exactly len(items) results in input order,
\* also when some batches raise (their items are returned as they are); the
\* progress callback is called once per successful batch, with a processed
\* count that never exceeds the total passed with it, also in a second call on
\* the same BatchProcessor.
C26_BatchResults ==
    /\ bp.pc = "returned" =>
          /\ Len(bp.results) = Len(bp.items)
          /\ \A k \in 1..Len(bp.items) :
                bp.results[k] \in {bp.items[k], Processed(bp.items[k])}
    /\ Len(bp.progress) = bp.succeeded
    /\ \A k \in 1..Len(bp.progress) : bp.progress[k].current <= bp.progress[k].total

\* C27: the modified flag tracks unsaved edits.  It is false right after a
\* successful load_file and a successful save_file, true after every successful
\* update_translation, left as it was by an out-of-range update and by a
\* save_file that fails, and it goes from true to false in no other step than
\* a successful load or save: it is never false while an update is unsaved.
C27_ModifiedTracksEdits ==
    [][ /\ (call'.op \in {"load", "save"} /\ ret' = "True") => ~modified'
        /\ (call'.op = "update" /\ ret' = "True") => modified'
        /\ (call'.op = "update" /\ ret' = "False") => modified' = modified
        /\ (call'.op = "save" /\ ret' = "raise") => modified' = modified
        /\ (modified /\ ~modified') =>
               (call'.op \in {"load", "save"} /\ ret' = "True")
      ]_vars

\* a save_file failed on a store with an updated item and left the flag set
C27_Witness ==
    /\ call.op = "save"
    /\ ret = "raise"
    /\ modified
    /\ ~imported
    /\ translations # extracted

\* the translation_completed signals of a run for the row index
CompletedFor(index) ==
    SelectSeq(run.log, LAMBDA e : e.sig = "translation_completed" /\ e.a = index)

\* the signals of a run with the given name
Emitted(name) == SelectSeq(run.log, LAMBDA e : e.sig = name)

\* C28: in a run that is never cancelled every queued entry leads to exactly
\* one translation_completed (with the translation or the original text) and
\* the last progress_updated reports completed = total, also when the
\* connectivity check fails for some entries; finished_all is emitted exactly
\* once, after the last translation_completed, in every run.
C28_EveryEntryCompleted ==
    /\ (run.pc = "finished" /\ ~run.was_cancelled) =>
          /\ \A k \in 1..Len(run.queue) :
                /\ Len(CompletedFor(run.queue[k].index)) = 1
                /\ CompletedFor(run.queue[k].index)[1].b \in {<<ALEF>>, run.queue[k].text}
          /\ Emitted("progress_updated") # <<>> =>
                Emitted("progress_updated")[Len(Emitted("progress_updated"))].a
                    = Len(run.queue)
          /\ run.queue # <<>> => Emitted("progress_updated") # <<>>
    /\ run.pc = "finished" =>
          /\ Len(Emitted("finished_all")) = 1
          /\ run.log[Len(run.log)].sig = "finished_all"
    /\ run.pc = "running" => Emitted("finished_all") = <<>>

\* the groups that hold position k
GroupsOf(k) == { g \in 1..Len(index_groups) : k \in Members(g) }

RECURSIVE Concatenated(_)
\* the groups one after the other
Concatenated(gs) == IF gs = <<>> THEN <<>> ELSE Head(gs) \o Concatenated(Tail(gs))

\* C29: smart_text_grouping partitions its input.  Every input position is in
\* exactly one group, the groups together hold as many texts as the input and
\* each member is the text of its position (the concatenation is a permutation
\* of the input), the members of a group are in input order, and the groups are
\* in the order of their seeds' positions.
C29_GroupsPartitionInput ==
    g_pc = "done" =>
        /\ \A k \in 0..(Len(texts) - 1) : Cardinality(GroupsOf(k)) = 1
        /\ \A g \in 1..Len(index_groups) : Members(g) \subseteq 0..(Len(texts) - 1)
        /\ Len(g_groups) = Len(index_groups)
        /\ Len(Concatenated(g_groups)) = Len(texts)
        /\ \A g \in 1..Len(index_groups) :
              /\ Len(g_groups[g]) = Len(index_groups[g])
              /\ \A m \in 1..Len(index_groups[g]) :
                    g_groups[g][m] = texts[index_groups[g][m] + 1]
              /\ \A m \in 1..(Len(index_groups[g]) - 1) :
                    index_groups[g][m] < index_groups[g][m + 1]
        /\ \A g \in 1..(Len(index_groups) - 1) : SeedOf(g) < SeedOf(g + 1)

\* a grouping of an input with a repeated text returned two groups, the first
\* of them holding a position after the seed of the second
C29_Witness ==
    /\ g_pc = "done"
    /\ \E a, b \in 1..Len(texts) : a # b /\ texts[a] = texts[b]
    /\ Len(g_groups) >= 2
    /\ \E m \in 1..Len(index_groups[1]) : index_groups[1][m] > SeedOf(2)

====
